---- MODULE Spec2Model ----
(***************************************************************************)
(* A model of toni's interactive session core: the record repository       *)
(* (internal/db), the undo/redo command log, the root Bubble Tea model's   *)
(* Update loop with its asynchronous commands, the debounced autocomplete  *)
(* pipeline of the edit forms and the three list tables.                   *)
(*                                                                         *)
(* Bubble Tea runs every tea.Cmd in its own goroutine and feeds the        *)
(* message it returns back to Update, one message at a time.  A command    *)
(* is modelled in two steps: it is issued by Update (it joins cmds), it    *)
(* runs against the repository at some later moment (its result joins      *)
(* msgs), and the result is delivered to Update at another later moment.   *)
(***************************************************************************)
EXTENDS Integers, Sequences, FiniteSets, Bags, TLC

VARIABLES
    db,                 \* the SQLite repository: three tables keyed by id
    now,                \* wall clock, in sub-second units
    yelpClient,         \* Model.yelpClient != nil
    screen, mode, gState, height,
    error, info, columnJump, returnScreen,
    visits, restaurants, wantToVisit,           \* list tables, <<>> when nil
    visitDetail, restaurantDetail, wantToVisitDetail,
    visitForm, restaurantForm, wantToVisitForm,
    prefs, undoStack, redoStack,
    cmds,               \* commands issued by Update that have not run yet
    msgs,               \* messages produced by commands, not yet delivered
    nextUid,            \* identity of the next undoAction value built
    last                \* the event Update processed last (history)

vars == <<db, now, yelpClient, screen, mode, gState, height, error, info,
          columnJump, returnScreen, visits, restaurants, wantToVisit,
          visitDetail, restaurantDetail, wantToVisitDetail,
          visitForm, restaurantForm, wantToVisitForm,
          prefs, undoStack, redoStack, cmds, msgs, nextUid, last>>

-----------------------------------------------------------------------------
(* Bounds of the model *)

MaxID == 1          \* largest primary key a table hands out
MaxSec == 1         \* seconds the session's clock runs over
MaxFrac == 1        \* sub-second units 0..MaxFrac within a second
MaxActions == 2     \* undoAction values built in one run
MaxInflight == 1    \* commands and messages in flight at once
MaxLookups == 3     \* the same, in a session that has a search client
MaxSeq == 3         \* largest searchSeq a form reaches

NULL == "NULL"      \* SQL NULL
Nil == <<>>         \* a nil pointer; <<x>> is a pointer to x
Some(x) == <<x>>

Names == {"A", "B"}
NoteTexts == {"", "n"}

Max(a, b) == IF a > b THEN a ELSE b
Min(a, b) == IF a < b THEN a ELSE b

SetMax(S) == CHOOSE x \in S : \A y \in S : y <= x
SetMin(S) == CHOOSE x \in S : \A y \in S : x <= y

RECURSIVE SortedSeq(_)
SortedSeq(S) ==
    IF S = {} THEN <<>> ELSE <<SetMin(S)>> \o SortedSeq(S \ {SetMin(S)})

Last(s) == s[Len(s)]
Front(s) == SubSeq(s, 1, Len(s) - 1)
Range(s) == {s[i] : i \in DOMAIN s}

-----------------------------------------------------------------------------
(* Timestamps.  A time.Time is a count of sub-second units, 0 being the    *)
(* zero Time.  The created_at column holds text: seconds, and a fraction   *)
(* that is either printed (strftime's %f) or absent (Go's RFC3339).        *)

Units == MaxFrac + 1
ZeroTime == 0

\* schema default: strftime('%Y-%m-%dT%H:%M:%fZ','now') prints the fraction
StrftimeNow(t) == [sec |-> t \div Units, fractional |-> TRUE, frac |-> t % Units]

\* time.Time.Format(time.RFC3339) prints whole seconds only
FormatRFC3339(t) == [sec |-> t \div Units, fractional |-> FALSE, frac |-> 0]

\* time.Parse(time.RFC3339, s) accepts a fraction after the seconds
ParseRFC3339(s) == s.sec * Units + (IF s.fractional THEN s.frac ELSE 0)

\* createdAt := time.Now().UTC().Format(time.RFC3339), unless CreatedAt is set
CreatedAtText(createdAt, t) ==
    IF createdAt # ZeroTime THEN FormatRFC3339(createdAt) ELSE FormatRFC3339(t)

-----------------------------------------------------------------------------
(* The repository.  d is the database: d.restaurants, d.visits and         *)
(* d.want_to_visit map the primary keys present to the stored rows.        *)
(* Operations that can fail return [err, db].                              *)

EmptyDB == [restaurants |-> <<>>, visits |-> <<>>, want_to_visit |-> <<>>]

\* INTEGER PRIMARY KEY without AUTOINCREMENT: one more than the largest rowid
NextRowID(table) == IF DOMAIN table = {} THEN 1 ELSE SetMax(DOMAIN table) + 1

Put(table, id, row) == [i \in DOMAIN table \cup {id} |-> IF i = id THEN row ELSE table[i]]
Drop(table, ids) == [i \in DOMAIN table \ ids |-> table[i]]

\* '' is bound as NULL on insert and update; NullString.String reads NULL as ''
ToNullable(s) == IF s = "" THEN NULL ELSE s
FromNullable(s) == IF s = NULL THEN "" ELSE s

ScanRestaurant(row) ==
    [ID |-> row.id, Name |-> row.name, CreatedAt |-> ParseRFC3339(row.created_at)]

ScanVisit(row) ==
    [ID |-> row.id, RestaurantID |-> row.restaurant_id,
     Notes |-> FromNullable(row.notes), CreatedAt |-> ParseRFC3339(row.created_at)]

ScanWantToVisit(row) ==
    [ID |-> row.id, RestaurantID |-> row.restaurant_id,
     Notes |-> FromNullable(row.notes), CreatedAt |-> ParseRFC3339(row.created_at)]

\* SELECT ... WHERE id = ?: <<row>>, or <<>> for sql.ErrNoRows
GetRestaurant(d, id) ==
    IF id \in DOMAIN d.restaurants THEN <<ScanRestaurant(d.restaurants[id])>> ELSE <<>>

GetVisit(d, id) ==
    IF id \in DOMAIN d.visits THEN <<ScanVisit(d.visits[id])>> ELSE <<>>

GetWantToVisit(d, id) ==
    IF id \in DOMAIN d.want_to_visit
    THEN <<ScanWantToVisit(d.want_to_visit[id])>> ELSE <<>>

\* SELECT ... WHERE restaurant_id = ? ORDER BY id
GetVisitsByRestaurant(d, rid) ==
    LET ids == SortedSeq({i \in DOMAIN d.visits : d.visits[i].restaurant_id = rid})
    IN  [k \in DOMAIN ids |-> ScanVisit(d.visits[ids[k]])]

GetWantToVisitByRestaurant(d, rid) ==
    LET ids == SortedSeq({i \in DOMAIN d.want_to_visit :
                              d.want_to_visit[i].restaurant_id = rid})
    IN  [k \in DOMAIN ids |-> ScanWantToVisit(d.want_to_visit[ids[k]])]

InsertRestaurant(d, name, t) ==
    LET id == NextRowID(d.restaurants)
    IN  [id |-> id,
         db |-> [d EXCEPT !.restaurants =
                    Put(@, id, [id |-> id, name |-> name, created_at |-> StrftimeNow(t)])]]

InsertVisit(d, v, t) ==
    LET id == NextRowID(d.visits)
    IN  [id |-> id,
         db |-> [d EXCEPT !.visits =
                    Put(@, id, [id |-> id, restaurant_id |-> v.RestaurantID,
                                notes |-> ToNullable(v.Notes),
                                created_at |-> StrftimeNow(t)])]]

\* notes is bound as the Go string itself, never as NULL
InsertWantToVisit(d, w, t) ==
    LET id == NextRowID(d.want_to_visit)
    IN  [id |-> id,
         db |-> [d EXCEPT !.want_to_visit =
                    Put(@, id, [id |-> id, restaurant_id |-> w.RestaurantID,
                                notes |-> w.Notes,
                                created_at |-> StrftimeNow(t)])]]

\* the primary key is unique: inserting a present id fails
InsertRestaurantWithID(d, r, t) ==
    IF r.ID \in DOMAIN d.restaurants
    THEN [err |-> TRUE, db |-> d]
    ELSE [err |-> FALSE,
          db |-> [d EXCEPT !.restaurants =
                     Put(@, r.ID, [id |-> r.ID, name |-> r.Name,
                                   created_at |-> CreatedAtText(r.CreatedAt, t)])]]

InsertVisitWithID(d, v, t) ==
    IF v.ID \in DOMAIN d.visits
    THEN [err |-> TRUE, db |-> d]
    ELSE [err |-> FALSE,
          db |-> [d EXCEPT !.visits =
                     Put(@, v.ID, [id |-> v.ID, restaurant_id |-> v.RestaurantID,
                                   notes |-> ToNullable(v.Notes),
                                   created_at |-> CreatedAtText(v.CreatedAt, t)])]]

InsertWantToVisitWithID(d, w, t) ==
    IF w.ID \in DOMAIN d.want_to_visit
    THEN [err |-> TRUE, db |-> d]
    ELSE [err |-> FALSE,
          db |-> [d EXCEPT !.want_to_visit =
                     Put(@, w.ID, [id |-> w.ID, restaurant_id |-> w.RestaurantID,
                                   notes |-> w.Notes,
                                   created_at |-> CreatedAtText(w.CreatedAt, t)])]]

\* UPDATE ... WHERE id = ?: no row, no error
UpdateRestaurant(d, r) ==
    IF r.ID \in DOMAIN d.restaurants
    THEN [d EXCEPT !.restaurants[r.ID].name = r.Name]
    ELSE d

UpdateVisit(d, v) ==
    IF v.ID \in DOMAIN d.visits
    THEN [d EXCEPT !.visits[v.ID].restaurant_id = v.RestaurantID,
                   !.visits[v.ID].notes = ToNullable(v.Notes)]
    ELSE d

UpdateWantToVisit(d, w) ==
    IF w.ID \in DOMAIN d.want_to_visit
    THEN [d EXCEPT !.want_to_visit[w.ID].restaurant_id = w.RestaurantID,
                   !.want_to_visit[w.ID].notes = w.Notes]
    ELSE d

DeleteVisit(d, id) == [d EXCEPT !.visits = Drop(@, {id})]

DeleteWantToVisit(d, id) == [d EXCEPT !.want_to_visit = Drop(@, {id})]

\* one transaction: the restaurant's visits, its wishlist entries, the restaurant
DeleteRestaurant(d, id) ==
    [restaurants |-> Drop(d.restaurants, {id}),
     visits |-> Drop(d.visits, {i \in DOMAIN d.visits : d.visits[i].restaurant_id = id}),
     want_to_visit |-> Drop(d.want_to_visit,
                            {i \in DOMAIN d.want_to_visit :
                                 d.want_to_visit[i].restaurant_id = id})]

-----------------------------------------------------------------------------
(* Strings.  The cell texts of the model and Go's strings functions on     *)
(* them.  Ordering is Go's byte-wise string comparison.                    *)

\* "U+0130" is the one letter I with a dot above: unicode.ToLower maps it to
\* "i", and unicode.SimpleFold maps it to itself alone; "U+00C9" is the one
\* letter E with an acute accent and "U+00E9" its lower case
ToLower(s) ==
    CASE s = "A" -> "a" [] s = "B" -> "b" [] s = " A" -> " a" [] s = "U+0130" -> "i"
      [] s = "U+00C9" -> "U+00E9" [] OTHER -> s
TrimSpace(s) == CASE s = " a" -> "a" [] s = " A" -> "A" [] OTHER -> s
SimpleFold(s) == IF s = "U+0130" THEN s ELSE ToLower(s)
EqualFold(a, b) == SimpleFold(a) = SimpleFold(b)

StrRank(s) ==
    CASE s = "" -> 0 [] s = " A" -> 1 [] s = " a" -> 2 [] s = "A" -> 3
      [] s = "B" -> 4 [] s = "a" -> 5 [] s = "b" -> 6 [] OTHER -> 7
StrLess(a, b) == StrRank(a) < StrRank(b)

-----------------------------------------------------------------------------
(* The list tables (VisitsModel, RestaurantsModel, WantToVisitModel).  The *)
(* three types carry the same fields and the same methods; a table is a    *)
(* record of those fields.  rows/allRows are entries/allEntries in         *)
(* WantToVisitModel, which has no viewportHeight.  A row is [ID, val],     *)
(* val mapping column keys to the cell text getValue returns.  Slice       *)
(* indices are 0-based as in the source: rows[i] is t.rows[i + 1].         *)

MaxRows == 3        \* rows a list query returns
NumColumns == 3     \* columns of a table (a prefix of the source's list)
MaxContent == 5     \* content heights 3..MaxContent given to a table's View
SmallHeight == 4    \* a terminal height below minUsableHeight

minUsableHeight == 18
defaultViewport == 10
wishlistWindow == 10

visitColumns == <<"date", "name", "address", "city", "price", "rating", "return", "notes">>
restaurantColumns ==
    <<"name", "address", "city", "area", "cuisine", "price", "rating", "visits", "last">>
wantToVisitColumns ==
    <<"name", "address", "city", "area", "cuisine", "price", "priority", "notes">>

MakeColumns(keys) == [i \in 1..NumColumns |-> [key |-> keys[i], hidden |-> FALSE]]

NoPrefs == [SortKey |-> "", SortDesc |-> FALSE, HiddenColumns |-> {}, ActiveColumn |-> ""]

NewVisitsModel(rows) ==
    [allRows |-> rows, rows |-> rows, cursor |-> 0, offset |-> 0,
     viewportHeight |-> 0, columns |-> MakeColumns(visitColumns), activeColumn |-> 0,
     sortKey |-> "", sortDesc |-> FALSE, filterKey |-> "", filterValue |-> ""]

NewRestaurantsModel(rows) ==
    [allRows |-> rows, rows |-> rows, cursor |-> 0, offset |-> 0,
     viewportHeight |-> 0, columns |-> MakeColumns(restaurantColumns), activeColumn |-> 0,
     sortKey |-> "", sortDesc |-> FALSE, filterKey |-> "", filterValue |-> ""]

NewWantToVisitModel(rows) ==
    [allRows |-> rows, rows |-> rows, cursor |-> 0, offset |-> 0,
     columns |-> MakeColumns(wantToVisitColumns), activeColumn |-> 0,
     sortKey |-> "", sortDesc |-> FALSE, filterKey |-> "", filterValue |-> ""]

getValue(row, key) == IF key \in DOMAIN row.val THEN row.val[key] ELSE ""

activeKey(t) == t.columns[t.activeColumn + 1].key

visibleColumnIndexes(t) == {i \in 0..(Len(t.columns) - 1) : ~t.columns[i + 1].hidden}

clampCursor(t) ==
    IF Len(t.rows) = 0 THEN [t EXCEPT !.cursor = 0, !.offset = 0]
    ELSE LET c1 == IF t.cursor >= Len(t.rows) THEN Len(t.rows) - 1 ELSE t.cursor
             c2 == IF c1 < 0 THEN 0 ELSE c1
         IN  [t EXCEPT !.cursor = c2, !.offset = IF t.offset > c2 THEN c2 ELSE t.offset]

\* the less function without its line for equal texts, which no build of the
\* program has
rowLessByTextAlone(t, a, b) ==
    LET left == ToLower(getValue(a, t.sortKey))
        right == ToLower(getValue(b, t.sortKey))
    IN  IF t.sortDesc THEN StrLess(right, left) ELSE StrLess(left, right)

\* the less function given to sort.SliceStable
rowLess(t, a, b) ==
    LET left == ToLower(getValue(a, t.sortKey))
        right == ToLower(getValue(b, t.sortKey))
    IN  IF left = right THEN a.ID > b.ID
        ELSE IF t.sortDesc THEN StrLess(right, left) ELSE StrLess(left, right)

\* a stable sort: each row goes after the last row it is not less than
RECURSIVE SliceStable(_, _)
SliceStable(t, rows) ==
    IF Len(rows) = 0 THEN <<>>
    ELSE LET done == SliceStable(t, Front(rows))
             x == Last(rows)
             keep == {i \in 0..Len(done) : \A j \in (i + 1)..Len(done) : rowLess(t, x, done[j])}
             at == SetMin(keep)
         IN  SubSeq(done, 1, at) \o <<x>> \o SubSeq(done, at + 1, Len(done))

rebuild(t) ==
    LET target == ToLower(TrimSpace(t.filterValue))
        filtered == IF t.filterKey # "" /\ t.filterValue # ""
                    THEN SelectSeq(t.allRows,
                             LAMBDA r : EqualFold(TrimSpace(getValue(r, t.filterKey)), target))
                    ELSE t.allRows
        sorted == IF t.sortKey # "" THEN SliceStable(t, filtered) ELSE filtered
    IN  clampCursor([t EXCEPT !.rows = sorted])

\* ensureVisibleActiveColumn without its last two lines, which no build of the
\* program runs: it leaves a table all of whose columns are hidden as it is
ensureVisibleActiveColumnLeavingAllHidden(t) ==
    IF ~t.columns[t.activeColumn + 1].hidden THEN t
    ELSE IF visibleColumnIndexes(t) # {}
         THEN [t EXCEPT !.activeColumn = SetMin(visibleColumnIndexes(t))]
         ELSE t

ensureVisibleActiveColumn(t) ==
    IF ~t.columns[t.activeColumn + 1].hidden THEN t
    ELSE IF visibleColumnIndexes(t) # {}
         THEN [t EXCEPT !.activeColumn = SetMin(visibleColumnIndexes(t))]
         ELSE [t EXCEPT !.columns[1].hidden = FALSE, !.activeColumn = 0]

\* ApplyPrefs without its first statement: the stored sort is not restored
ApplyPrefsWithoutSort(t, p) ==
    LET t2 == [t EXCEPT !.columns =
                  [i \in DOMAIN t.columns |->
                      [t.columns[i] EXCEPT !.hidden = (t.columns[i].key \in p.HiddenColumns)]]]
        hit == {i \in 0..(Len(t.columns) - 1) : t.columns[i + 1].key = p.ActiveColumn}
        t3 == IF p.ActiveColumn # "" /\ hit # {}
              THEN [t2 EXCEPT !.activeColumn = SetMin(hit)] ELSE t2
    IN  rebuild(ensureVisibleActiveColumn(t3))

ApplyPrefs(t, p) ==
    LET t1 == IF p.SortKey # ""
              THEN [t EXCEPT !.sortKey = p.SortKey, !.sortDesc = p.SortDesc] ELSE t
        t2 == [t1 EXCEPT !.columns =
                  [i \in DOMAIN t.columns |->
                      [t.columns[i] EXCEPT !.hidden = (t.columns[i].key \in p.HiddenColumns)]]]
        hit == {i \in 0..(Len(t.columns) - 1) : t.columns[i + 1].key = p.ActiveColumn}
        t3 == IF p.ActiveColumn # "" /\ hit # {}
              THEN [t2 EXCEPT !.activeColumn = SetMin(hit)] ELSE t2
    IN  rebuild(ensureVisibleActiveColumn(t3))

Prefs(t) ==
    [SortKey |-> t.sortKey, SortDesc |-> t.sortDesc,
     HiddenColumns |-> {t.columns[i].key : i \in {j \in DOMAIN t.columns : t.columns[j].hidden}},
     ActiveColumn |-> activeKey(t)]

\* NextColumn with the test for hidden columns left out of the loop
NextColumnNoSkip(t) ==
    [t EXCEPT !.activeColumn = (t.activeColumn + 1) % Len(t.columns)]

\* the loop steps right until it meets a visible column or is back at start
NextColumn(t) ==
    LET n == Len(t.columns)
        start == t.activeColumn
        at(k) == (start + k) % n
        k == SetMin({i \in 1..n : ~t.columns[at(i) + 1].hidden \/ at(i) = start})
    IN  [t EXCEPT !.activeColumn = at(k)]

PrevColumn(t) ==
    LET n == Len(t.columns)
        start == t.activeColumn
        at(k) == (start + n - k) % n
        k == SetMin({i \in 1..n : ~t.columns[at(i) + 1].hidden \/ at(i) = start})
    IN  [t EXCEPT !.activeColumn = at(k)]

\* the test without its look at the hidden flag, which no build of the
\* program has
JumpToColumnOkWhenHidden(t, number) ==
    number >= 1 /\ number <= Len(t.columns)

\* JumpToColumn returns false, and changes nothing, when it refuses
JumpToColumnOk(t, number) ==
    /\ number >= 1 /\ number <= Len(t.columns)
    /\ ~t.columns[number].hidden

JumpToColumn(t, number) ==
    IF JumpToColumnOk(t, number) THEN [t EXCEPT !.activeColumn = number - 1] ELSE t

\* the cycle with a last step that forgets to rebuild, which no build of the
\* program has
CycleSortActiveColumnClearingLazily(t) ==
    IF t.sortKey # activeKey(t)
    THEN rebuild([t EXCEPT !.sortKey = activeKey(t), !.sortDesc = FALSE])
    ELSE IF ~t.sortDesc
         THEN rebuild([t EXCEPT !.sortDesc = TRUE])
         ELSE [t EXCEPT !.sortKey = "", !.sortDesc = FALSE]

CycleSortActiveColumn(t) ==
    IF t.sortKey # activeKey(t)
    THEN rebuild([t EXCEPT !.sortKey = activeKey(t), !.sortDesc = FALSE])
    ELSE IF ~t.sortDesc
         THEN rebuild([t EXCEPT !.sortDesc = TRUE])
         ELSE rebuild([t EXCEPT !.sortKey = "", !.sortDesc = FALSE])

CycleSortMessage(t) ==
    IF t.sortKey # activeKey(t) THEN "Sorted ascending"
    ELSE IF ~t.sortDesc THEN "Sorted descending" ELSE "Sorting cleared"

HideActiveColumnOk(t) == Cardinality(visibleColumnIndexes(t)) > 1

\* the hide without its call of ensureVisibleActiveColumn, which no build of
\* the program lacks
HideActiveColumnStayingThere(t) ==
    IF HideActiveColumnOk(t)
    THEN [t EXCEPT !.columns[t.activeColumn + 1].hidden = TRUE]
    ELSE t

HideActiveColumn(t) ==
    IF HideActiveColumnOk(t)
    THEN ensureVisibleActiveColumn([t EXCEPT !.columns[t.activeColumn + 1].hidden = TRUE])
    ELSE t

ShowAllColumns(t) ==
    [t EXCEPT !.columns = [i \in DOMAIN @ |-> [@[i] EXCEPT !.hidden = FALSE]]]

\* the text of the selected cell; rows[cursor] panics outside the slice
selectedValue(t) == TrimSpace(getValue(t.rows[t.cursor + 1], activeKey(t)))

CycleFilterBySelectedValue(t) ==
    IF Len(t.rows) = 0 THEN t
    ELSE IF selectedValue(t) = "" THEN t
    ELSE IF t.filterKey = activeKey(t)
            /\ EqualFold(TrimSpace(t.filterValue), selectedValue(t))
         THEN rebuild([t EXCEPT !.filterKey = "", !.filterValue = ""])
         ELSE rebuild([t EXCEPT !.filterKey = activeKey(t),
                                !.filterValue = selectedValue(t)])

CycleFilterMessage(t) ==
    IF Len(t.rows) = 0 THEN "No rows to filter"
    ELSE IF selectedValue(t) = "" THEN "No filterable value in selected cell"
    ELSE IF t.filterKey = activeKey(t)
            /\ EqualFold(TrimSpace(t.filterValue), selectedValue(t))
         THEN "Filter cleared"
         ELSE "Filter applied from selected value"

\* vh := m.viewportHeight; if vh == 0 { vh = 10 }
vhOf(t) == IF t.viewportHeight = 0 THEN defaultViewport ELSE t.viewportHeight

MoveDown(t) ==
    IF t.cursor < Len(t.rows) - 1
    THEN [t EXCEPT !.cursor = @ + 1,
                   !.offset = IF t.cursor + 1 >= @ + vhOf(t) THEN @ + 1 ELSE @]
    ELSE t

MoveUp(t) ==
    IF t.cursor > 0
    THEN [t EXCEPT !.cursor = @ - 1,
                   !.offset = IF t.cursor - 1 < @ THEN @ - 1 ELSE @]
    ELSE t

JumpToTop(t) == [t EXCEPT !.cursor = 0, !.offset = 0]

JumpToBottom(t) ==
    IF Len(t.rows) > 0
    THEN LET c == Len(t.rows) - 1
         IN  [t EXCEPT !.cursor = c,
                       !.offset = IF c >= vhOf(t) THEN c - vhOf(t) + 1 ELSE @]
    ELSE t

HalfPageDown(t, pageSize) ==
    LET moved == t.cursor + pageSize \div 2
        c == IF moved >= Len(t.rows) THEN Len(t.rows) - 1 ELSE moved
    IN  [t EXCEPT !.cursor = c,
                  !.offset = IF c >= @ + vhOf(t) THEN c - vhOf(t) + 1 ELSE @]

HalfPageUp(t, pageSize) ==
    LET moved == t.cursor - pageSize \div 2
        c == IF moved < 0 THEN 0 ELSE moved
    IN  [t EXCEPT !.cursor = c, !.offset = IF c < @ THEN c ELSE @]

\* WantToVisitModel scrolls within a fixed window of ten rows
CursorDown(t) ==
    IF t.cursor < Len(t.rows) - 1
    THEN [t EXCEPT !.cursor = @ + 1,
                   !.offset = IF t.cursor + 1 >= @ + wishlistWindow THEN @ + 1 ELSE @]
    ELSE t

CursorUp(t) == MoveUp(t)

WishlistJumpToBottom(t) ==
    IF Len(t.rows) > 0
    THEN LET c == Len(t.rows) - 1
         IN  [t EXCEPT !.cursor = c,
                       !.offset = IF c >= wishlistWindow THEN c - (wishlistWindow - 1) ELSE @]
    ELSE t

\* for i := 0; i < n; i++ { step() }
RECURSIVE Repeat(_, _, _)
Repeat(Step(_), n, t) == IF n <= 0 THEN t ELSE Repeat(Step, n - 1, Step(t))

\* View stores the height it draws with, unless it draws the empty state
TableView(t, contentHeight) ==
    IF Len(t.rows) = 0 \/ visibleColumnIndexes(t) = {} THEN t
    ELSE [t EXCEPT !.viewportHeight = contentHeight - 3]

-----------------------------------------------------------------------------
(* The root model (ui.Model).  An optional table, detail or form is <<>>   *)
(* when the pointer is nil and <<x>> otherwise.                            *)

ScreenVisits == "Visits"
ScreenRestaurants == "Restaurants"
ScreenWantToVisit == "WantToVisit"
ScreenVisitDetail == "VisitDetail"
ScreenRestaurantDetail == "RestaurantDetail"
ScreenWantToVisitDetail == "WantToVisitDetail"
ScreenVisitForm == "VisitForm"
ScreenRestaurantForm == "RestaurantForm"
ScreenWantToVisitForm == "WantToVisitForm"

TopLevelScreens == {ScreenVisits, ScreenRestaurants, ScreenWantToVisit}

ModeNav == "Nav"
ModeInsert == "Insert"

GStateIdle == "Idle"
GStateFirstG == "FirstG"

defaultUIPreferences == [Visits |-> NoPrefs, Restaurants |-> NoPrefs, WantToVisit |-> NoPrefs]

\* what Update leaves alone in the groups below
details == <<visitDetail, restaurantDetail, wantToVisitDetail>>
forms == <<visitForm, restaurantForm, wantToVisitForm>>
undoLog == <<undoStack, redoStack, nextUid>>
world == <<db, now, yelpClient>>

\* what is remembered of the event Update processed last: of "u" or "ctrl+r"
\* that popped an action, the action's uid and the stacks the key found; of
\* a debounce tick, its seq; of the completion of a lookup, its seq and the
\* completions delivered one after the other up to it; of a cancelled form,
\* that it was one; of any other event, nothing
Event(name) ==
    [ev |-> name, uid |-> 0, undoStack |-> <<>>, redoStack |-> <<>>, seq |-> 0,
     completed |-> <<>>]
NoEvent == Event("")

currentTable ==
    CASE screen = ScreenVisits -> visits
      [] screen = ScreenRestaurants -> restaurants
      [] screen = ScreenWantToVisit -> wantToVisit
      [] OTHER -> Nil

persistCurrentTablePrefs(p, scr, t) ==
    CASE scr = ScreenVisits -> [p EXCEPT !.Visits = Prefs(t)]
      [] scr = ScreenRestaurants -> [p EXCEPT !.Restaurants = Prefs(t)]
      [] scr = ScreenWantToVisit -> [p EXCEPT !.WantToVisit = Prefs(t)]
      [] OTHER -> p

\* Model.View, which Bubble Tea calls after every Update.  It draws the
\* current list in the height the header, tabs, footer and banners leave;
\* their heights depend on how the texts wrap at the terminal's width, so
\* the content height is an input.  v, r and w are the tables Update left.
View(scr, h, v, r, w) ==
    /\ wantToVisit' = w
    /\ IF h >= minUsableHeight
       THEN \E contentHeight \in 3..MaxContent :
                /\ visits' = IF scr = ScreenVisits /\ v # Nil
                             THEN Some(TableView(v[1], contentHeight)) ELSE v
                /\ restaurants' = IF scr = ScreenRestaurants /\ r # Nil
                                  THEN Some(TableView(r[1], contentHeight)) ELSE r
       ELSE visits' = v /\ restaurants' = r

\* the current table becomes t
ViewWithCurrentTable(t) ==
    View(screen, height,
         IF screen = ScreenVisits THEN Some(t) ELSE visits,
         IF screen = ScreenRestaurants THEN Some(t) ELSE restaurants,
         IF screen = ScreenWantToVisit THEN Some(t) ELSE wantToVisit)

ViewUnchanged == View(screen, height, visits, restaurants, wantToVisit)

\* a key handled by handleNavMode's table switch: it returns before the
\* gg state machine is reached
TableKey(t, newInfo, newJump, persist) ==
    /\ mode = ModeNav
    /\ currentTable # Nil
    /\ ViewWithCurrentTable(t)
    /\ prefs' = IF persist THEN persistCurrentTablePrefs(prefs, screen, t) ELSE prefs
    /\ info' = newInfo
    /\ columnJump' = newJump
    /\ last' = NoEvent
    /\ UNCHANGED <<screen, mode, gState, height, error, returnScreen,
                   details, forms, undoLog, world, cmds, msgs>>

KeyTab ==
    /\ currentTable # Nil
    /\ TableKey(NextColumn(currentTable[1]), info, columnJump, TRUE)

KeyShiftTab ==
    /\ currentTable # Nil
    /\ TableKey(PrevColumn(currentTable[1]), info, columnJump, TRUE)

KeySlash ==
    /\ currentTable # Nil
    /\ TableKey(currentTable[1], "Jump to column: press 1-9 (esc to cancel)",
                TRUE, FALSE)

KeySort ==
    /\ currentTable # Nil
    /\ TableKey(CycleSortActiveColumn(currentTable[1]),
                CycleSortMessage(currentTable[1]), columnJump, TRUE)

KeyHide ==
    /\ currentTable # Nil
    /\ TableKey(HideActiveColumn(currentTable[1]),
                IF HideActiveColumnOk(currentTable[1])
                THEN "Column hidden" ELSE "Cannot hide last visible column",
                columnJump, HideActiveColumnOk(currentTable[1]))

KeyShowAll ==
    /\ currentTable # Nil
    /\ TableKey(ShowAllColumns(currentTable[1]), "All columns shown", columnJump, TRUE)

KeyFilter ==
    /\ currentTable # Nil
    /\ TableKey(CycleFilterBySelectedValue(currentTable[1]),
                CycleFilterMessage(currentTable[1]), columnJump, TRUE)

JumpedText ==
    <<"Jumped to column 1", "Jumped to column 2", "Jumped to column 3",
      "Jumped to column 4", "Jumped to column 5", "Jumped to column 6",
      "Jumped to column 7", "Jumped to column 8", "Jumped to column 9">>
UnavailableText ==
    <<"Column 1 unavailable", "Column 2 unavailable", "Column 3 unavailable",
      "Column 4 unavailable", "Column 5 unavailable", "Column 6 unavailable",
      "Column 7 unavailable", "Column 8 unavailable", "Column 9 unavailable">>

\* Update's column-jump prompt: esc closes it
ColumnJumpEsc ==
    /\ mode = ModeNav /\ columnJump
    /\ columnJump' = FALSE
    /\ info' = ""
    /\ ViewUnchanged
    /\ last' = NoEvent
    /\ UNCHANGED <<screen, mode, gState, height, error, returnScreen, prefs,
                   details, forms, undoLog, world, cmds, msgs>>

\* Update's column-jump prompt: a digit jumps, or is refused and the prompt stays
ColumnJumpDigit(n) ==
    /\ mode = ModeNav /\ columnJump
    /\ IF currentTable # Nil /\ JumpToColumnOk(currentTable[1], n)
       THEN /\ ViewWithCurrentTable(JumpToColumn(currentTable[1], n))
            /\ prefs' = persistCurrentTablePrefs(prefs, screen, JumpToColumn(currentTable[1], n))
            /\ columnJump' = FALSE
            /\ info' = JumpedText[n]
       ELSE /\ ViewUnchanged
            /\ info' = UnavailableText[n]
            /\ UNCHANGED <<prefs, columnJump>>
    /\ last' = NoEvent
    /\ UNCHANGED <<screen, mode, gState, height, error, returnScreen,
                   details, forms, undoLog, world, cmds, msgs>>

\* handleNavMode's gg state machine and handleJumpToTop
KeyG ==
    /\ mode = ModeNav
    /\ IF gState = GStateIdle
       THEN gState' = GStateFirstG /\ ViewUnchanged
       ELSE /\ gState' = GStateIdle
            /\ IF currentTable # Nil
               THEN ViewWithCurrentTable(JumpToTop(currentTable[1]))
               ELSE ViewUnchanged
    /\ last' = NoEvent
    /\ UNCHANGED <<screen, mode, height, error, info, columnJump, returnScreen, prefs,
                   details, forms, undoLog, world, cmds, msgs>>

\* a cursor key of handleVisitsNav, handleRestaurantsNav or handleWantToVisitNav:
\* ListOp is what it does to a visits or restaurants table, WishlistOp what
\* it does to the wishlist
MoveKey(ListOp(_), WishlistOp(_)) ==
    /\ mode = ModeNav
    /\ screen \in TopLevelScreens
    /\ gState' = GStateIdle
    /\ IF currentTable = Nil THEN ViewUnchanged
       ELSE IF screen = ScreenWantToVisit
            THEN ViewWithCurrentTable(WishlistOp(currentTable[1]))
            ELSE ViewWithCurrentTable(ListOp(currentTable[1]))
    /\ last' = NoEvent
    /\ UNCHANGED <<screen, mode, height, error, info, columnJump, returnScreen, prefs,
                   details, forms, undoLog, world, cmds, msgs>>

halfPageDownList(t) == HalfPageDown(t, height)
halfPageUpList(t) == HalfPageUp(t, height)
halfPageDownWishlist(t) == Repeat(CursorDown, height \div 2, t)
halfPageUpWishlist(t) == Repeat(CursorUp, height \div 2, t)

KeyDown == MoveKey(MoveDown, CursorDown)
KeyUp == MoveKey(MoveUp, CursorUp)
KeyBottom == MoveKey(JumpToBottom, WishlistJumpToBottom)
KeyHalfPageDown == MoveKey(halfPageDownList, halfPageDownWishlist)
KeyHalfPageUp == MoveKey(halfPageUpList, halfPageUpWishlist)

WindowSizeMsg(h) ==
    /\ height' = h
    /\ View(screen, h, visits, restaurants, wantToVisit)
    /\ last' = NoEvent
    /\ UNCHANGED <<screen, mode, gState, error, info, columnJump, returnScreen, prefs,
                   details, forms, undoLog, world, cmds, msgs>>

\* Update's cases for the three list results; msgs and last are the caller's
VisitsLoadedMsg(rows) ==
    /\ View(screen, height, Some(ApplyPrefs(NewVisitsModel(rows), prefs.Visits)),
            restaurants, wantToVisit)
    /\ error' = ""
    /\ UNCHANGED <<screen, mode, gState, height, info, columnJump, returnScreen, prefs,
                   details, forms, undoLog, world, cmds>>

RestaurantsLoadedMsg(rows) ==
    /\ View(screen, height, visits,
            Some(ApplyPrefs(NewRestaurantsModel(rows), prefs.Restaurants)), wantToVisit)
    /\ error' = ""
    /\ UNCHANGED <<screen, mode, gState, height, info, columnJump, returnScreen, prefs,
                   details, forms, undoLog, world, cmds>>

WantToVisitLoadedMsg(rows) ==
    /\ View(screen, height, visits, restaurants,
            Some(ApplyPrefs(NewWantToVisitModel(rows), prefs.WantToVisit)))
    /\ error' = ""
    /\ UNCHANGED <<screen, mode, gState, height, info, columnJump, returnScreen, prefs,
                   details, forms, undoLog, world, cmds>>

-----------------------------------------------------------------------------
(* List queries.  A list row carries the id and the cell texts the model   *)
(* keeps of a record.  Rows that tie on the ORDER BY key come in rowid     *)
(* order.                                                                  *)

RECURSIVE OrderBy(_, _)
\* the ids of S by ascending rank[id], ties by ascending id
OrderBy(S, rank) ==
    IF S = {} THEN <<>>
    ELSE LET first == CHOOSE x \in S : \A y \in S \ {x} :
                          rank[x] < rank[y] \/ (rank[x] = rank[y] /\ x < y)
         IN  <<first>> \o OrderBy(S \ {first}, rank)

\* FROM visits v JOIN restaurants r ON v.restaurant_id = r.id ORDER BY v.visited_on DESC;
\* the model keeps no visited_on
ListVisits(d) ==
    LET ids == {i \in DOMAIN d.visits : d.visits[i].restaurant_id \in DOMAIN d.restaurants}
        order == OrderBy(ids, [i \in ids |-> 0])
    IN  [k \in DOMAIN order |->
            [ID |-> order[k],
             val |-> [name |-> d.restaurants[d.visits[order[k]].restaurant_id].name,
                      notes |-> FromNullable(d.visits[order[k]].notes)]]]

\* FROM restaurants r LEFT JOIN visits v ... GROUP BY r.id ORDER BY r.name
ListRestaurants(d) ==
    LET ids == DOMAIN d.restaurants
        order == OrderBy(ids, [i \in ids |-> StrRank(d.restaurants[i].name)])
    IN  [k \in DOMAIN order |->
            [ID |-> order[k], val |-> [name |-> d.restaurants[order[k]].name]]]

\* created_at is compared as text: seconds first, then the fraction, a text
\* without fraction ("...:56Z") sorting after one with ("...:56.789Z")
TextRank(c) == c.sec * (Units + 1) + (IF c.fractional THEN c.frac ELSE Units)

\* FROM want_to_visit w JOIN restaurants r ... ORDER BY w.priority DESC NULLS LAST,
\* w.created_at DESC; the model keeps no priority
GetWantToVisitList(d) ==
    LET w == d.want_to_visit
        ids == {i \in DOMAIN w : w[i].restaurant_id \in DOMAIN d.restaurants}
        order == OrderBy(ids, [i \in ids |-> 0 - TextRank(w[i].created_at)])
    IN  [k \in DOMAIN order |->
            [ID |-> order[k],
             val |-> [name |-> d.restaurants[w[order[k]].restaurant_id].name,
                      notes |-> FromNullable(w[order[k]].notes)]]]

\* the text as SQLite's LIKE compares it: upper and lower case are the same
\* for the letters of ASCII alone
LikeFold(s) == IF s \in {"U+0130", "U+00C9", "U+00E9"} THEN s ELSE ToLower(s)

\* WHERE name LIKE '%' || ? || '%' ORDER BY name, on the one-letter names of the
\* model: LIKE ignores ASCII case
SearchRestaurants(d, query) ==
    LET ids == {i \in DOMAIN d.restaurants :
                    query = "" \/ LikeFold(d.restaurants[i].name) = LikeFold(query)}
        order == OrderBy(ids, [i \in ids |-> StrRank(d.restaurants[i].name)])
    IN  [k \in DOMAIN order |-> ScanRestaurant(d.restaurants[order[k]])]

\* the id of the first restaurant whose name equals the text, case and
\* surrounding blanks ignored; 0 when there is none
findExactRestaurantID(found, restaurantName) ==
    LET target == ToLower(TrimSpace(restaurantName))
        hits == {k \in DOMAIN found : ToLower(TrimSpace(found[k].Name)) = target}
    IN  IF hits = {} THEN 0 ELSE found[SetMin(hits)].ID

\* ConvertWantToVisitToVisit: delete the entry, return its restaurant id
ConvertWantToVisitToVisit(d, id) == DeleteWantToVisit(d, id)

-----------------------------------------------------------------------------
(* The undo log.  An undoAction is a pair of closures; it is modelled by   *)
(* its label and the values the closures capture: rec is after (a save) or *)
(* deleted (a delete), before is the update's earlier record, visits and   *)
(* entries are the dependents a restaurant delete took along.  uid tells   *)
(* apart two actions built from equal values.                              *)

undoAction(uid, label, rec, before, depVisits, depEntries) ==
    [uid |-> uid, label |-> label, rec |-> rec, before |-> before,
     visits |-> depVisits, entries |-> depEntries]

Ok(d) == [err |-> FALSE, db |-> d]

RECURSIVE InsertEntries(_, _, _)
\* for _, e := range entries { if err := InsertWantToVisitWithID(e); err != nil { return err } }
InsertEntries(d, es, t) ==
    IF Len(es) = 0 THEN Ok(d)
    ELSE LET r == InsertWantToVisitWithID(d, Head(es), t)
         IN  IF r.err THEN r ELSE InsertEntries(r.db, Tail(es), t)

RECURSIVE InsertVisits(_, _, _)
InsertVisits(d, vs, t) ==
    IF Len(vs) = 0 THEN Ok(d)
    ELSE LET r == InsertVisitWithID(d, Head(vs), t)
         IN  IF r.err THEN r ELSE InsertVisits(r.db, Tail(vs), t)

\* the undo closure of buildDeleteRestaurantAction: the restaurant, then its
\* wishlist entries, then its visits, stopping at the first error
UndoDeleteRestaurant(d, a, t) ==
    LET r1 == InsertRestaurantWithID(d, a.rec, t)
        r2 == InsertEntries(r1.db, a.entries, t)
    IN  IF r1.err THEN r1 ELSE IF r2.err THEN r2 ELSE InsertVisits(r2.db, a.visits, t)

\* action.undo(), run at time t on database d: [err, db]
Undo(a, d, t) ==
    CASE a.label = "visit saved" -> Ok(DeleteVisit(d, a.rec.ID))
      [] a.label = "visit updated" -> Ok(UpdateVisit(d, a.before[1]))
      [] a.label = "restaurant saved" -> Ok(DeleteRestaurant(d, a.rec.ID))
      [] a.label = "restaurant updated" -> Ok(UpdateRestaurant(d, a.before[1]))
      [] a.label = "want_to_visit saved" -> Ok(DeleteWantToVisit(d, a.rec.ID))
      [] a.label = "want_to_visit updated" -> Ok(UpdateWantToVisit(d, a.before[1]))
      [] a.label = "visit deleted" -> InsertVisitWithID(d, a.rec, t)
      [] a.label = "want_to_visit deleted" -> InsertWantToVisitWithID(d, a.rec, t)
      [] a.label = "restaurant deleted" -> UndoDeleteRestaurant(d, a, t)
      [] a.label = "converted want_to_visit" -> InsertWantToVisitWithID(d, a.rec, t)

\* action.redo()
Redo(a, d, t) ==
    CASE a.label = "visit saved" -> InsertVisitWithID(d, a.rec, t)
      [] a.label = "visit updated" -> Ok(UpdateVisit(d, a.rec))
      [] a.label = "restaurant saved" -> InsertRestaurantWithID(d, a.rec, t)
      [] a.label = "restaurant updated" -> Ok(UpdateRestaurant(d, a.rec))
      [] a.label = "want_to_visit saved" -> InsertWantToVisitWithID(d, a.rec, t)
      [] a.label = "want_to_visit updated" -> Ok(UpdateWantToVisit(d, a.rec))
      [] a.label = "visit deleted" -> Ok(DeleteVisit(d, a.rec.ID))
      [] a.label = "want_to_visit deleted" -> Ok(DeleteWantToVisit(d, a.rec.ID))
      [] a.label = "restaurant deleted" -> Ok(DeleteRestaurant(d, a.rec.ID))
      [] a.label = "converted want_to_visit" -> Ok(DeleteWantToVisit(d, a.rec.ID))

\* build*SaveAction: <<action>>, or <<>> for nil (an update without Before)
buildSaveAction(uid, msg, saved, updated) ==
    IF msg.Operation = "insert"
    THEN <<undoAction(uid, saved, msg.After[1], <<>>, <<>>, <<>>)>>
    ELSE IF msg.Operation = "update" /\ msg.Before # <<>>
         THEN <<undoAction(uid, updated, msg.After[1], msg.Before, <<>>, <<>>)>>
         ELSE <<>>

buildVisitSaveAction(uid, msg) == buildSaveAction(uid, msg, "visit saved", "visit updated")
buildRestaurantSaveAction(uid, msg) ==
    buildSaveAction(uid, msg, "restaurant saved", "restaurant updated")
buildWantToVisitSaveAction(uid, msg) ==
    buildSaveAction(uid, msg, "want_to_visit saved", "want_to_visit updated")

buildDeleteVisitAction(uid, msg) ==
    undoAction(uid, "visit deleted", msg.Deleted[1], <<>>, <<>>, <<>>)
buildDeleteWantToVisitAction(uid, msg) ==
    undoAction(uid, "want_to_visit deleted", msg.Deleted[1], <<>>, <<>>, <<>>)
buildDeleteRestaurantAction(uid, msg) ==
    undoAction(uid, "restaurant deleted", msg.Deleted[1], <<>>,
               msg.DeletedVisits, msg.DeletedWantToVisit)
buildConvertAction(uid, msg) ==
    undoAction(uid, "converted want_to_visit", msg.Deleted[1], <<>>, <<>>, <<>>)

\* a push that puts the action at the bottom of the stack, which no build of
\* the program does
pushUndoActionAtBottom(stack, action) ==
    [undoStack |-> <<action>> \o stack, redoStack |-> <<>>]

\* m.undoStack = append(m.undoStack, action); m.redoStack = nil
pushUndoAction(stack, action) == [undoStack |-> Append(stack, action), redoStack |-> <<>>]

-----------------------------------------------------------------------------
(* The edit forms.  name is inputs[0], notes the notes input; date, rating *)
(* and wouldReturn are inputs[1..3] of the visit form and priority is      *)
(* inputs[1] of the wishlist form; the texts of the restaurant form's      *)
(* other inputs (address, ...) are not kept.  VisitFormModel and           *)
(* WantToVisitFormModel share a shape; id is visitID or wantToVisitID.     *)
(* The records keep no date, rating, would-return or priority: a form      *)
(* loaded from a record shows texts that save accepts, and the empty text  *)
(* stands for them.                                                        *)

visitFormFields == 5
wantToVisitFormFields == 3
restaurantFormFields == 6

\* the identity of a form value that NewVisitFormModel or
\* NewWantToVisitFormModel allocates: m.visitForm is a pointer, and a new
\* form is a new object.  The least number not borne by any timer or lookup
\* still in flight tells it from every form whose messages can still arrive.
FreshInstance ==
    LET borne == {c.origin : c \in BagToSet(cmds)} \cup {m.origin : m \in BagToSet(msgs)}
    IN  SetMin({i \in 1..(Cardinality(borne) + 1) : i \notin borne})

NewSearchForm(d, client, restaurantID) ==
    LET found == IF restaurantID > 0 THEN GetRestaurant(d, restaurantID) ELSE <<>>
    IN  [id |-> 0, restaurantID |-> restaurantID, searchClient |-> client,
         restaurantName |-> IF found # <<>> THEN found[1].Name ELSE "",
         name |-> IF found # <<>> THEN found[1].Name ELSE "",
         date |-> "", rating |-> "", wouldReturn |-> "", priority |-> "",
         notes |-> "",
         focusedField |-> IF found # <<>> THEN 1 ELSE 0,
         error |-> "", searchSeq |-> 0, searchResults |-> <<>>, searchCursor |-> 0,
         showDropdown |-> FALSE, searching |-> FALSE, inst |-> FreshInstance]

NewVisitFormModel(d, client, restaurantID) == NewSearchForm(d, client, restaurantID)
NewWantToVisitFormModel(d, client, restaurantID) == NewSearchForm(d, client, restaurantID)

\* LoadVisit and LoadWantToVisit: the record's fields into the form
LoadRecord(f, rec, d) ==
    LET found == GetRestaurant(d, rec.RestaurantID)
    IN  [f EXCEPT !.id = rec.ID, !.restaurantID = rec.RestaurantID,
                  !.restaurantName = IF found # <<>> THEN found[1].Name ELSE @,
                  !.name = IF found # <<>> THEN found[1].Name ELSE @,
                  !.notes = rec.Notes]

LoadVisit(f, visit, d) == LoadRecord(f, visit, d)
LoadWantToVisit(f, entry, d) == LoadRecord(f, entry, d)

NewRestaurantFormModel(restaurantID) ==
    [restaurantID |-> restaurantID, name |-> "", focusedField |-> 0, error |-> ""]

LoadRestaurant(f, restaurant) ==
    [f EXCEPT !.restaurantID = restaurant.ID, !.name = restaurant.Name]

-----------------------------------------------------------------------------
(* Messages and commands.  Every message is a record of one shape, the     *)
(* fields a message type lacks left at their zero values; a pointer or a   *)
(* struct field is <<>> (nil, absent) or <<x>>.                            *)

Msg(type) ==
    [type |-> type, ID |-> 0, Operation |-> "", Before |-> <<>>, After |-> <<>>,
     Deleted |-> <<>>, DeletedVisits |-> <<>>, DeletedWantToVisit |-> <<>>,
     Rows |-> <<>>, Record |-> <<>>, Restaurant |-> <<>>, RestaurantID |-> 0,
     Err |-> "", action |-> <<>>, direction |-> "", err |-> FALSE, seq |-> 0,
     results |-> <<>>, origin |-> 0]

ErrorMsg(text) == [Msg("ErrorMsg") EXCEPT !.Err = text]

Cmd(type) ==
    [type |-> type, ID |-> 0, form |-> <<>>, action |-> <<>>, seq |-> 0, query |-> "",
     origin |-> 0]
CmdFor(type, id) == [Cmd(type) EXCEPT !.ID = id]

Result(d, msg) == [db |-> d, msg |-> msg]

\* the first half without its InsertRestaurant, which no build of the
\* program has
resolveRestaurantWithoutInsert(f, d, t) ==
    LET restaurantName == TrimSpace(f.name)
        existing == findExactRestaurantID(SearchRestaurants(d, restaurantName), restaurantName)
    IN  IF f.restaurantID > 0 THEN [id |-> f.restaurantID, db |-> d]
        ELSE IF existing # 0 THEN [id |-> existing, db |-> d]
        ELSE [id |-> NextRowID(d.restaurants), db |-> d]

\* the first half of both save closures: the restaurant the text names, found
\* or created; [id, db]
resolveRestaurant(f, d, t) ==
    LET restaurantName == TrimSpace(f.name)
        existing == findExactRestaurantID(SearchRestaurants(d, restaurantName), restaurantName)
    IN  IF f.restaurantID > 0 THEN [id |-> f.restaurantID, db |-> d]
        ELSE IF existing # 0 THEN [id |-> existing, db |-> d]
        ELSE InsertRestaurant(d, restaurantName, t)

\* strconv.ParseFloat and strconv.Atoi on the texts a user of this model
\* types: <<n>>, or <<>> for an error
ParseNumber(s) == CASE s = "0" -> <<0>> [] s = "5" -> <<5>> [] OTHER -> <<>>

\* util.ParseVisitDateInput accepts the empty text and a date in one of its
\* five layouts, which none of the texts of this model is
ParseVisitDateInputOk(input) == TrimSpace(input) = ""

ratingOk(ratingStr) ==
    \/ ratingStr = ""
    \/ /\ ParseNumber(ratingStr) # <<>>
       /\ ParseNumber(ratingStr)[1] >= 1 /\ ParseNumber(ratingStr)[1] <= 10

wouldReturnOk(wrStr) == wrStr \in {"", "y", "yes", "1", "n", "no", "0"}

priorityOk(priorityStr) ==
    \/ priorityStr = ""
    \/ /\ ParseNumber(priorityStr) # <<>>
       /\ ParseNumber(priorityStr)[1] >= 1 /\ ParseNumber(priorityStr)[1] <= 5

\* the texts of the errors save returns for an input it refuses
validationErrors ==
    {"restaurant name is required", "invalid date format (e.g. June 20, 2025)",
     "rating must be between 1 and 10 (decimals allowed)",
     "would return must be y/yes/1 or n/no/0", "priority must be between 1 and 5"}

\* VisitFormModel.save's closure, run at time t on database d: the restaurant
\* is found or created before the date, the rating and would-return are read
saveVisit(f, d, t) ==
    LET r == resolveRestaurant(f, d, t)
        notes == TrimSpace(f.notes)
        after == [RestaurantID |-> r.id, Notes |-> notes, CreatedAt |-> ZeroTime]
        before == GetVisit(r.db, f.id)
        ins == InsertVisit(r.db, after, t)
    IN  IF TrimSpace(f.name) = "" THEN Result(d, ErrorMsg("restaurant name is required"))
        ELSE IF ~ParseVisitDateInputOk(TrimSpace(f.date))
        THEN Result(r.db, ErrorMsg("invalid date format (e.g. June 20, 2025)"))
        ELSE IF ~ratingOk(TrimSpace(f.rating))
        THEN Result(r.db, ErrorMsg("rating must be between 1 and 10 (decimals allowed)"))
        ELSE IF ~wouldReturnOk(TrimSpace(ToLower(f.wouldReturn)))
        THEN Result(r.db, ErrorMsg("would return must be y/yes/1 or n/no/0"))
        ELSE IF f.id > 0
        THEN IF before = <<>> THEN Result(r.db, ErrorMsg("sql: no rows in result set"))
             ELSE Result(UpdateVisit(r.db, [ID |-> f.id, RestaurantID |-> r.id, Notes |-> notes]),
                         [Msg("VisitSavedMsg") EXCEPT !.ID = f.id, !.Operation = "update",
                              !.Before = before,
                              !.After = <<[ID |-> f.id, RestaurantID |-> r.id,
                                           Notes |-> notes, CreatedAt |-> ZeroTime]>>])
        ELSE Result(ins.db,
                    [Msg("VisitSavedMsg") EXCEPT !.ID = ins.id, !.Operation = "insert",
                         !.After = <<[ID |-> ins.id, RestaurantID |-> r.id,
                                      Notes |-> notes, CreatedAt |-> ZeroTime]>>])

\* WantToVisitFormModel.save's closure; an update's After keeps before.CreatedAt
saveWantToVisit(f, d, t) ==
    LET r == resolveRestaurant(f, d, t)
        notes == TrimSpace(f.notes)
        before == GetWantToVisit(r.db, f.id)
        ins == InsertWantToVisit(r.db, [RestaurantID |-> r.id, Notes |-> notes], t)
    IN  IF TrimSpace(f.name) = "" THEN Result(d, ErrorMsg("restaurant name is required"))
        ELSE IF ~priorityOk(TrimSpace(f.priority))
        THEN Result(r.db, ErrorMsg("priority must be between 1 and 5"))
        ELSE IF f.id > 0
        THEN IF before = <<>> THEN Result(r.db, ErrorMsg("sql: no rows in result set"))
             ELSE Result(UpdateWantToVisit(r.db, [ID |-> f.id, RestaurantID |-> r.id,
                                                  Notes |-> notes]),
                         [Msg("WantToVisitSavedMsg") EXCEPT !.ID = f.id, !.Operation = "update",
                              !.Before = before,
                              !.After = <<[ID |-> f.id, RestaurantID |-> r.id, Notes |-> notes,
                                           CreatedAt |-> before[1].CreatedAt]>>])
        ELSE Result(ins.db,
                    [Msg("WantToVisitSavedMsg") EXCEPT !.ID = ins.id, !.Operation = "insert",
                         !.After = <<[ID |-> ins.id, RestaurantID |-> r.id,
                                      Notes |-> notes, CreatedAt |-> ZeroTime]>>])

\* RestaurantFormModel.save's closure
saveRestaurant(f, d, t) ==
    LET name == TrimSpace(f.name)
        before == GetRestaurant(d, f.restaurantID)
        ins == InsertRestaurant(d, name, t)
    IN  IF name = "" THEN Result(d, ErrorMsg("name is required"))
        ELSE IF f.restaurantID > 0
        THEN IF before = <<>> THEN Result(d, ErrorMsg("sql: no rows in result set"))
             ELSE Result(UpdateRestaurant(d, [ID |-> f.restaurantID, Name |-> name]),
                         [Msg("RestaurantSavedMsg") EXCEPT
                              !.ID = f.restaurantID, !.Operation = "update",
                              !.Before = before,
                              !.After = <<[ID |-> f.restaurantID, Name |-> name,
                                           CreatedAt |-> before[1].CreatedAt]>>])
        ELSE Result(ins.db,
                    [Msg("RestaurantSavedMsg") EXCEPT !.ID = ins.id, !.Operation = "insert",
                         !.After = <<[ID |-> ins.id, Name |-> name, CreatedAt |-> ZeroTime]>>])

loadVisitsCmd(d) == Result(d, [Msg("VisitsLoadedMsg") EXCEPT !.Rows = ListVisits(d)])
loadRestaurantsCmd(d) ==
    Result(d, [Msg("RestaurantsLoadedMsg") EXCEPT !.Rows = ListRestaurants(d)])
loadWantToVisitCmd(d) ==
    Result(d, [Msg("WantToVisitLoadedMsg") EXCEPT !.Rows = GetWantToVisitList(d)])

loadVisitDetailCmd(d, visitID) ==
    LET visit == GetVisit(d, visitID)
        restaurant == GetRestaurant(d, visit[1].RestaurantID)
    IN  IF visit = <<>> THEN Result(d, ErrorMsg("failed to load visit"))
        ELSE IF restaurant = <<>> THEN Result(d, ErrorMsg("failed to load restaurant"))
        ELSE Result(d, [Msg("VisitDetailLoadedMsg") EXCEPT
                            !.Record = visit, !.Restaurant = restaurant])

\* GetRestaurantWithStats: the model keeps the restaurant of the detail
loadRestaurantDetailCmd(d, restaurantID) ==
    LET restaurant == GetRestaurant(d, restaurantID)
    IN  IF restaurant = <<>> THEN Result(d, ErrorMsg("failed to load restaurant"))
        ELSE Result(d, [Msg("RestaurantDetailLoadedMsg") EXCEPT !.Record = restaurant])

loadWantToVisitDetailCmd(d, wtvID) ==
    LET wtv == GetWantToVisit(d, wtvID)
        restaurant == GetRestaurant(d, wtv[1].RestaurantID)
    IN  IF wtv = <<>> THEN Result(d, ErrorMsg("failed to load want_to_visit"))
        ELSE IF restaurant = <<>> THEN Result(d, ErrorMsg("failed to load restaurant"))
        ELSE Result(d, [Msg("wantToVisitDetailLoadedMsg") EXCEPT
                            !.Record = wtv, !.Restaurant = restaurant])

deleteVisitCmd(d, visitID) ==
    LET visit == GetVisit(d, visitID)
    IN  IF visit = <<>> THEN Result(d, ErrorMsg("failed to load visit before delete"))
        ELSE Result(DeleteVisit(d, visitID),
                    [Msg("DeleteVisitMsg") EXCEPT !.ID = visitID, !.Deleted = visit])

deleteRestaurantCmd(d, restaurantID) ==
    LET restaurant == GetRestaurant(d, restaurantID)
    IN  IF restaurant = <<>>
        THEN Result(d, ErrorMsg("failed to load restaurant before delete"))
        ELSE Result(DeleteRestaurant(d, restaurantID),
                    [Msg("DeleteRestaurantMsg") EXCEPT
                         !.ID = restaurantID, !.Deleted = restaurant,
                         !.DeletedVisits = GetVisitsByRestaurant(d, restaurantID),
                         !.DeletedWantToVisit = GetWantToVisitByRestaurant(d, restaurantID)])

deleteWantToVisitCmd(d, wtvID) ==
    LET wtv == GetWantToVisit(d, wtvID)
    IN  IF wtv = <<>> THEN Result(d, ErrorMsg("failed to load want_to_visit before delete"))
        ELSE Result(DeleteWantToVisit(d, wtvID),
                    [Msg("DeleteWantToVisitMsg") EXCEPT !.ID = wtvID, !.Deleted = wtv])

convertToVisitCmd(d, wtvID) ==
    LET wtv == GetWantToVisit(d, wtvID)
    IN  IF wtv = <<>> THEN Result(d, ErrorMsg("failed to load convert source"))
        ELSE Result(ConvertWantToVisitToVisit(d, wtvID),
                    [Msg("ConvertToVisitMsg") EXCEPT
                         !.ID = wtvID, !.RestaurantID = wtv[1].RestaurantID, !.Deleted = wtv])

\* the closures undoCmd and redoCmd return
runUndo(a, d, t) ==
    LET r == Undo(a, d, t)
    IN  Result(r.db, [Msg("undoAppliedMsg") EXCEPT
                          !.err = r.err, !.action = <<a>>, !.direction = "undo"])

runRedo(a, d, t) ==
    LET r == Redo(a, d, t)
    IN  Result(r.db, [Msg("undoAppliedMsg") EXCEPT
                          !.err = r.err, !.action = <<a>>, !.direction = "redo"])

\* what command c does when its goroutine runs at time t: the database it
\* leaves and the message it returns
RunCmd(c, d, t) ==
    CASE c.type = "loadVisits" -> loadVisitsCmd(d)
      [] c.type = "loadRestaurants" -> loadRestaurantsCmd(d)
      [] c.type = "loadWantToVisit" -> loadWantToVisitCmd(d)
      [] c.type = "loadVisitDetail" -> loadVisitDetailCmd(d, c.ID)
      [] c.type = "loadRestaurantDetail" -> loadRestaurantDetailCmd(d, c.ID)
      [] c.type = "loadWantToVisitDetail" -> loadWantToVisitDetailCmd(d, c.ID)
      [] c.type = "deleteVisit" -> deleteVisitCmd(d, c.ID)
      [] c.type = "deleteRestaurant" -> deleteRestaurantCmd(d, c.ID)
      [] c.type = "deleteWantToVisit" -> deleteWantToVisitCmd(d, c.ID)
      [] c.type = "convertToVisit" -> convertToVisitCmd(d, c.ID)
      [] c.type = "saveVisit" -> saveVisit(c.form[1], d, t)
      [] c.type = "saveRestaurant" -> saveRestaurant(c.form[1], d, t)
      [] c.type = "saveWantToVisit" -> saveWantToVisit(c.form[1], d, t)
      [] c.type = "formCancelled" -> Result(d, Msg("FormCancelledMsg"))
      [] c.type = "undo" -> runUndo(c.action[1], d, t)
      [] c.type = "redo" -> runRedo(c.action[1], d, t)
      [] c.type \in {"debounceTick", "wtvDebounceTick"} ->
             Result(d, [Msg(c.type) EXCEPT !.seq = c.seq, !.origin = c.origin])

-----------------------------------------------------------------------------
(* Model.Update on a message a command returned.  These actions say what   *)
(* Update does to the model and which commands it issues; taking the       *)
(* message out of msgs and recording the event is Deliver's part.          *)

Batch(types) == SetToBag({Cmd(type) : type \in types})

reloadCurrentTopLevelCmd(scr) ==
    CASE scr \in {ScreenVisits, ScreenVisitDetail, ScreenVisitForm} -> Cmd("loadVisits")
      [] scr \in {ScreenRestaurants, ScreenRestaurantDetail, ScreenRestaurantForm} ->
             Cmd("loadRestaurants")
      [] OTHER -> Cmd("loadWantToVisit")

\* the case of ErrorMsg with a reset of the redo stack, which no build of
\* the program has
OnErrorMsgDroppingRedo(m) ==
    /\ error' = m.Err
    /\ redoStack' = <<>>
    /\ ViewUnchanged
    /\ UNCHANGED <<screen, mode, gState, height, info, columnJump, returnScreen, prefs,
                   details, forms, undoStack, nextUid, world, cmds>>

OnErrorMsg(m) ==
    /\ error' = m.Err
    /\ ViewUnchanged
    /\ UNCHANGED <<screen, mode, gState, height, info, columnJump, returnScreen, prefs,
                   details, forms, undoLog, world, cmds>>

\* pushUndoAction, when the build function returned an action
PushBuilt(built) ==
    IF built # <<>>
    THEN /\ undoStack' = pushUndoAction(undoStack, built[1]).undoStack
         /\ redoStack' = pushUndoAction(undoStack, built[1]).redoStack
         /\ nextUid' = nextUid + 1
    ELSE UNCHANGED undoLog

OnVisitSavedMsg(m) ==
    /\ PushBuilt(buildVisitSaveAction(nextUid, m))
    /\ mode' = ModeNav /\ screen' = ScreenVisits /\ visitForm' = Nil
    /\ info' = "Visit saved"
    /\ cmds' = cmds (+) Batch({"loadVisits", "loadRestaurants", "loadWantToVisit"})
    /\ View(ScreenVisits, height, visits, restaurants, wantToVisit)
    /\ UNCHANGED <<gState, height, error, columnJump, returnScreen, prefs, details,
                   restaurantForm, wantToVisitForm, world>>

OnRestaurantSavedMsg(m) ==
    /\ PushBuilt(buildRestaurantSaveAction(nextUid, m))
    /\ mode' = ModeNav /\ screen' = ScreenRestaurants /\ restaurantForm' = Nil
    /\ info' = "Restaurant saved"
    /\ cmds' = cmds (+) Batch({"loadRestaurants", "loadVisits", "loadWantToVisit"})
    /\ View(ScreenRestaurants, height, visits, restaurants, wantToVisit)
    /\ UNCHANGED <<gState, height, error, columnJump, returnScreen, prefs, details,
                   visitForm, wantToVisitForm, world>>

OnWantToVisitSavedMsg(m) ==
    /\ PushBuilt(buildWantToVisitSaveAction(nextUid, m))
    /\ mode' = ModeNav /\ screen' = ScreenWantToVisit /\ wantToVisitForm' = Nil
    /\ info' = "Want-to-visit entry saved"
    /\ cmds' = cmds (+) Batch({"loadWantToVisit", "loadRestaurants"})
    /\ View(ScreenWantToVisit, height, visits, restaurants, wantToVisit)
    /\ UNCHANGED <<gState, height, error, columnJump, returnScreen, prefs, details,
                   visitForm, restaurantForm, world>>

\* the case of FormCancelledMsg going to the visits list from wherever the
\* form was opened, which no build of the program does
OnFormCancelledMsgToVisits(m) ==
    /\ mode' = ModeNav
    /\ visitForm' = Nil /\ restaurantForm' = Nil /\ wantToVisitForm' = Nil
    /\ screen' = ScreenVisits
    /\ View(ScreenVisits, height, visits, restaurants, wantToVisit)
    /\ UNCHANGED <<gState, height, error, info, columnJump, returnScreen, prefs,
                   details, undoLog, world, cmds>>

OnFormCancelledMsg(m) ==
    /\ mode' = ModeNav
    /\ visitForm' = Nil /\ restaurantForm' = Nil /\ wantToVisitForm' = Nil
    /\ screen' = returnScreen
    /\ View(returnScreen, height, visits, restaurants, wantToVisit)
    /\ UNCHANGED <<gState, height, error, info, columnJump, returnScreen, prefs,
                   details, undoLog, world, cmds>>

OnDeleteVisitMsg(m) ==
    /\ PushBuilt(<<buildDeleteVisitAction(nextUid, m)>>)
    /\ screen' = ScreenVisits /\ visitDetail' = Nil
    /\ info' = "Visit deleted (u to undo)"
    /\ cmds' = cmds (+) Batch({"loadVisits", "loadRestaurants", "loadWantToVisit"})
    /\ View(ScreenVisits, height, visits, restaurants, wantToVisit)
    /\ UNCHANGED <<mode, gState, height, error, columnJump, returnScreen, prefs,
                   restaurantDetail, wantToVisitDetail, forms, world>>

OnDeleteRestaurantMsg(m) ==
    /\ PushBuilt(<<buildDeleteRestaurantAction(nextUid, m)>>)
    /\ screen' = ScreenRestaurants /\ restaurantDetail' = Nil
    /\ info' = "Restaurant deleted (u to undo)"
    /\ cmds' = cmds (+) Batch({"loadRestaurants", "loadVisits", "loadWantToVisit"})
    /\ View(ScreenRestaurants, height, visits, restaurants, wantToVisit)
    /\ UNCHANGED <<mode, gState, height, error, columnJump, returnScreen, prefs,
                   visitDetail, wantToVisitDetail, forms, world>>

OnDeleteWantToVisitMsg(m) ==
    /\ PushBuilt(<<buildDeleteWantToVisitAction(nextUid, m)>>)
    /\ screen' = ScreenWantToVisit /\ wantToVisitDetail' = Nil
    /\ info' = "Want-to-visit entry deleted (u to undo)"
    /\ cmds' = cmds (+) Batch({"loadWantToVisit"})
    /\ View(ScreenWantToVisit, height, visits, restaurants, wantToVisit)
    /\ UNCHANGED <<mode, gState, height, error, columnJump, returnScreen, prefs,
                   visitDetail, restaurantDetail, forms, world>>

\* the entry is gone and the visit form opens on its restaurant
OnConvertToVisitMsg(m) ==
    /\ PushBuilt(<<buildConvertAction(nextUid, m)>>)
    /\ mode' = ModeInsert /\ screen' = ScreenVisitForm
    /\ returnScreen' = ScreenWantToVisit
    /\ visitForm' = Some(NewVisitFormModel(db, yelpClient, m.RestaurantID))
    /\ wantToVisitDetail' = Nil
    /\ info' = "Converted to visit (u to undo)"
    /\ cmds' = cmds (+) Batch({"loadWantToVisit"})
    /\ View(ScreenVisitForm, height, visits, restaurants, wantToVisit)
    /\ UNCHANGED <<gState, height, error, columnJump, prefs, visitDetail, restaurantDetail,
                   restaurantForm, wantToVisitForm, world>>

OnVisitDetailLoadedMsg(m) ==
    /\ visitDetail' = Some([visit |-> m.Record[1], restaurant |-> m.Restaurant[1]])
    /\ screen' = ScreenVisitDetail /\ error' = ""
    /\ View(ScreenVisitDetail, height, visits, restaurants, wantToVisit)
    /\ UNCHANGED <<mode, gState, height, info, columnJump, returnScreen, prefs,
                   restaurantDetail, wantToVisitDetail, forms, undoLog, world, cmds>>

OnRestaurantDetailLoadedMsg(m) ==
    /\ restaurantDetail' = Some([detail |-> [Restaurant |-> m.Record[1]]])
    /\ screen' = ScreenRestaurantDetail /\ error' = ""
    /\ View(ScreenRestaurantDetail, height, visits, restaurants, wantToVisit)
    /\ UNCHANGED <<mode, gState, height, info, columnJump, returnScreen, prefs,
                   visitDetail, wantToVisitDetail, forms, undoLog, world, cmds>>

OnWantToVisitDetailLoadedMsg(m) ==
    /\ wantToVisitDetail' = Some([entry |-> m.Record[1], restaurant |-> m.Restaurant[1]])
    /\ screen' = ScreenWantToVisitDetail /\ error' = ""
    /\ View(ScreenWantToVisitDetail, height, visits, restaurants, wantToVisit)
    /\ UNCHANGED <<mode, gState, height, info, columnJump, returnScreen, prefs,
                   visitDetail, restaurantDetail, forms, undoLog, world, cmds>>

\* applyUndoResult: a failure only sets the error; a success puts the action
\* on the other stack and reloads the current top-level list.  Update returns
\* "m, m.applyUndoResult(msg)": the compiler runs the call before it copies
\* m into the result, so the model Update returns carries these assignments.
applyUndoResult(m) ==
    /\ IF m.err
       THEN /\ error' = IF m.direction = "undo" THEN "undo failed" ELSE "redo failed"
            /\ UNCHANGED <<undoStack, redoStack, info, cmds>>
       ELSE /\ IF m.direction = "undo"
               THEN /\ redoStack' = Append(redoStack, m.action[1])
                    /\ info' = "Undid: " \o m.action[1].label
                    /\ UNCHANGED undoStack
               ELSE /\ undoStack' = Append(undoStack, m.action[1])
                    /\ info' = "Redid: " \o m.action[1].label
                    /\ UNCHANGED redoStack
            /\ error' = ""
            /\ cmds' = cmds (+) SetToBag({reloadCurrentTopLevelCmd(screen)})
    /\ ViewUnchanged
    /\ UNCHANGED <<screen, mode, gState, height, columnJump, returnScreen, prefs,
                   details, forms, nextUid, world>>

-----------------------------------------------------------------------------
(* Keys in Nav mode: handleNavMode and the per-screen handlers.            *)

\* commands and messages in flight; the user presses a key only while fewer
\* than MaxInflight are (MaxLookups with a search client, whose debounce
\* timers and lookups are in flight too)
InFlight == BagCardinality(cmds) + BagCardinality(msgs)
CanIssue == InFlight < (IF yelpClient THEN MaxLookups ELSE MaxInflight)

mutationCmds ==
    {"deleteVisit", "deleteRestaurant", "deleteWantToVisit", "convertToVisit",
     "saveVisit", "saveRestaurant", "saveWantToVisit"}
mutationMsgs ==
    {"VisitSavedMsg", "RestaurantSavedMsg", "WantToVisitSavedMsg", "DeleteVisitMsg",
     "DeleteRestaurantMsg", "DeleteWantToVisitMsg", "ConvertToVisitMsg"}

CountOf(bag, types) ==
    LET hits == {x \in BagToSet(bag) : x.type \in types}
        RECURSIVE Sum(_)
        Sum(S) == IF S = {} THEN 0
                  ELSE LET x == CHOOSE y \in S : TRUE IN CopiesIn(x, bag) + Sum(S \ {x})
    IN  Sum(hits)

\* a key that starts a forward mutation is taken only while the actions built
\* and still to be built stay within MaxActions
CanMutate ==
    /\ CanIssue
    /\ (nextUid - 1) + CountOf(cmds, mutationCmds) + CountOf(msgs, mutationMsgs) < MaxActions

Issue(c) == cmds' = cmds (+) SetToBag({c})

\* a pop that leaves the action on the stack, which no build of the program does
popActionKeepingIt(stack) == [action |-> Last(stack), rest |-> stack]

\* action := stack[len(stack)-1]; stack = stack[:len(stack)-1]
popAction(stack) == [action |-> Last(stack), rest |-> Front(stack)]

\* "u": undoCmd pops the action before its closure has run.  Update returns
\* "m, m.undoCmd()", and the returned model carries the pop.
KeyUndo ==
    /\ mode = ModeNav
    /\ CanIssue
    /\ IF Len(undoStack) = 0
       THEN /\ info' = "Nothing to undo"
            /\ last' = NoEvent
            /\ UNCHANGED <<undoStack, cmds>>
       ELSE /\ undoStack' = popAction(undoStack).rest
            /\ Issue([Cmd("undo") EXCEPT !.action = <<popAction(undoStack).action>>])
            /\ last' = [Event("u") EXCEPT !.uid = Last(undoStack).uid,
                                          !.undoStack = undoStack, !.redoStack = redoStack]
            /\ UNCHANGED info
    /\ ViewUnchanged
    /\ UNCHANGED <<screen, mode, gState, height, error, columnJump, returnScreen, prefs,
                   details, forms, redoStack, nextUid, world, msgs>>

\* "ctrl+r"
KeyRedo ==
    /\ mode = ModeNav
    /\ CanIssue
    /\ IF Len(redoStack) = 0
       THEN /\ info' = "Nothing to redo"
            /\ last' = NoEvent
            /\ UNCHANGED <<redoStack, cmds>>
       ELSE /\ redoStack' = popAction(redoStack).rest
            /\ Issue([Cmd("redo") EXCEPT !.action = <<popAction(redoStack).action>>])
            /\ last' = [Event("ctrl+r") EXCEPT !.uid = Last(redoStack).uid,
                                               !.undoStack = undoStack, !.redoStack = redoStack]
            /\ UNCHANGED info
    /\ ViewUnchanged
    /\ UNCHANGED <<screen, mode, gState, height, error, columnJump, returnScreen, prefs,
                   details, forms, undoStack, nextUid, world, msgs>>

\* the keys of a list screen that lead to another list: left/right, b/f, B/F,
\* r, w, h and v all set the screen and load the list if it is nil, as
\* switchTopLevel does; every list can be reached from every other
KeySwitch(target) ==
    /\ mode = ModeNav
    /\ CanIssue
    /\ currentTable # Nil
    /\ gState' = GStateIdle
    /\ screen' = target
    /\ IF target = ScreenWantToVisit /\ wantToVisit = Nil
       THEN Issue(Cmd("loadWantToVisit"))
       ELSE IF target = ScreenRestaurants /\ restaurants = Nil
            THEN Issue(Cmd("loadRestaurants"))
            ELSE UNCHANGED cmds
    /\ View(target, height, visits, restaurants, wantToVisit)
    /\ last' = NoEvent
    /\ UNCHANGED <<mode, height, error, info, columnJump, returnScreen, prefs,
                   details, forms, undoLog, world, msgs>>

\* the id under the cursor, 0 when there is none
selectedID(t) ==
    IF Len(t.rows) > 0 /\ t.cursor < Len(t.rows) THEN t.rows[t.cursor + 1].ID ELSE 0

\* "a" on a list screen opens its empty form
KeyAdd ==
    /\ mode = ModeNav
    /\ CanIssue
    /\ currentTable # Nil
    /\ gState' = GStateIdle
    /\ returnScreen' = screen
    /\ mode' = ModeInsert
    /\ CASE screen = ScreenVisits ->
              /\ screen' = ScreenVisitForm
              /\ visitForm' = Some(NewVisitFormModel(db, yelpClient, 0))
              /\ UNCHANGED <<restaurantForm, wantToVisitForm>>
         [] screen = ScreenRestaurants ->
              /\ screen' = ScreenRestaurantForm
              /\ restaurantForm' = Some(NewRestaurantFormModel(0))
              /\ UNCHANGED <<visitForm, wantToVisitForm>>
         [] screen = ScreenWantToVisit ->
              /\ screen' = ScreenWantToVisitForm
              /\ wantToVisitForm' = Some(NewWantToVisitFormModel(db, yelpClient, 0))
              /\ UNCHANGED <<visitForm, restaurantForm>>
    /\ View(screen', height, visits, restaurants, wantToVisit)
    /\ last' = NoEvent
    /\ UNCHANGED <<height, error, info, columnJump, prefs, details, undoLog, world,
                   cmds, msgs>>

\* "enter" or "l" on a list screen loads the detail of the selected row
KeyEnter ==
    /\ mode = ModeNav
    /\ CanIssue
    /\ currentTable # Nil
    /\ gState' = GStateIdle
    /\ IF selectedID(currentTable[1]) # 0
       THEN /\ Issue(CmdFor(CASE screen = ScreenVisits -> "loadVisitDetail"
                              [] screen = ScreenRestaurants -> "loadRestaurantDetail"
                              [] screen = ScreenWantToVisit -> "loadWantToVisitDetail",
                            selectedID(currentTable[1])))
       ELSE UNCHANGED cmds
    /\ ViewUnchanged
    /\ last' = NoEvent
    /\ UNCHANGED <<screen, mode, height, error, info, columnJump, returnScreen, prefs,
                   details, forms, undoLog, world, msgs>>

\* "v" on the restaurants list or on a restaurant's detail: a visit form
\* with the restaurant filled in
KeyVisitHere ==
    /\ mode = ModeNav
    /\ CanIssue
    /\ \/ /\ screen = ScreenRestaurants /\ restaurants # Nil
          /\ selectedID(restaurants[1]) # 0
          /\ visitForm' = Some(NewVisitFormModel(db, yelpClient, selectedID(restaurants[1])))
       \/ /\ screen = ScreenRestaurantDetail /\ restaurantDetail # Nil
          /\ visitForm' = Some(NewVisitFormModel(db, yelpClient,
                                                 restaurantDetail[1].detail.Restaurant.ID))
    /\ gState' = GStateIdle
    /\ returnScreen' = screen
    /\ mode' = ModeInsert
    /\ screen' = ScreenVisitForm
    /\ View(ScreenVisitForm, height, visits, restaurants, wantToVisit)
    /\ last' = NoEvent
    /\ UNCHANGED <<height, error, info, columnJump, prefs, details, restaurantForm,
                   wantToVisitForm, undoLog, world, cmds, msgs>>

\* "h", "b" or "esc" on a detail screen: back to its list.  (With the
\* column-jump prompt open, esc closes the prompt instead: ColumnJumpEsc.)
KeyBack ==
    /\ mode = ModeNav
    /\ CanIssue
    /\ gState' = GStateIdle
    /\ CASE screen = ScreenVisitDetail ->
              /\ screen' = ScreenVisits /\ visitDetail' = Nil
              /\ UNCHANGED <<restaurantDetail, wantToVisitDetail>>
         [] screen = ScreenRestaurantDetail ->
              /\ screen' = ScreenRestaurants /\ restaurantDetail' = Nil
              /\ UNCHANGED <<visitDetail, wantToVisitDetail>>
         [] screen = ScreenWantToVisitDetail ->
              /\ screen' = ScreenWantToVisit /\ wantToVisitDetail' = Nil
              /\ UNCHANGED <<visitDetail, restaurantDetail>>
         [] OTHER -> FALSE
    /\ View(screen', height, visits, restaurants, wantToVisit)
    /\ last' = NoEvent
    /\ UNCHANGED <<mode, height, error, info, columnJump, returnScreen, prefs, forms,
                   undoLog, world, cmds, msgs>>

\* the detail the current screen shows, <<>> on another screen or when nil
currentDetail ==
    CASE screen = ScreenVisitDetail -> visitDetail
      [] screen = ScreenRestaurantDetail -> restaurantDetail
      [] screen = ScreenWantToVisitDetail -> wantToVisitDetail
      [] OTHER -> Nil

\* "e" on a detail screen: the form, loaded with the record
KeyEdit ==
    /\ mode = ModeNav
    /\ CanIssue
    /\ currentDetail # Nil
    /\ gState' = GStateIdle
    /\ returnScreen' = screen
    /\ mode' = ModeInsert
    /\ CASE screen = ScreenVisitDetail ->
              /\ screen' = ScreenVisitForm
              /\ visitForm' = Some(LoadVisit(NewVisitFormModel(db, yelpClient, 0),
                                             visitDetail[1].visit, db))
              /\ UNCHANGED <<restaurantForm, wantToVisitForm>>
         [] screen = ScreenRestaurantDetail ->
              /\ screen' = ScreenRestaurantForm
              /\ restaurantForm' = Some(LoadRestaurant(NewRestaurantFormModel(0),
                                                       restaurantDetail[1].detail.Restaurant))
              /\ UNCHANGED <<visitForm, wantToVisitForm>>
         [] screen = ScreenWantToVisitDetail ->
              /\ screen' = ScreenWantToVisitForm
              /\ wantToVisitForm' = Some(LoadWantToVisit(NewWantToVisitFormModel(db, yelpClient, 0),
                                                         wantToVisitDetail[1].entry, db))
              /\ UNCHANGED <<visitForm, restaurantForm>>
    /\ View(screen', height, visits, restaurants, wantToVisit)
    /\ last' = NoEvent
    /\ UNCHANGED <<height, error, info, columnJump, prefs, details, undoLog, world,
                   cmds, msgs>>

\* "d" on a detail screen issues the delete of the record shown
KeyDelete ==
    /\ mode = ModeNav
    /\ currentDetail # Nil
    /\ CanMutate
    /\ gState' = GStateIdle
    /\ Issue(CASE screen = ScreenVisitDetail ->
                      CmdFor("deleteVisit", visitDetail[1].visit.ID)
               [] screen = ScreenRestaurantDetail ->
                      CmdFor("deleteRestaurant", restaurantDetail[1].detail.Restaurant.ID)
               [] screen = ScreenWantToVisitDetail ->
                      CmdFor("deleteWantToVisit", wantToVisitDetail[1].entry.ID))
    /\ ViewUnchanged
    /\ last' = NoEvent
    /\ UNCHANGED <<screen, mode, height, error, info, columnJump, returnScreen, prefs,
                   details, forms, undoLog, world, msgs>>

\* "c" on a wishlist entry's detail issues its conversion to a visit
KeyConvert ==
    /\ mode = ModeNav
    /\ screen = ScreenWantToVisitDetail /\ wantToVisitDetail # Nil
    /\ CanMutate
    /\ gState' = GStateIdle
    /\ Issue(CmdFor("convertToVisit", wantToVisitDetail[1].entry.ID))
    /\ ViewUnchanged
    /\ last' = NoEvent
    /\ UNCHANGED <<screen, mode, height, error, info, columnJump, returnScreen, prefs,
                   details, forms, undoLog, world, msgs>>

-----------------------------------------------------------------------------
(* Keys in Insert mode: handleInsertMode hands them to the form of the     *)
(* current screen.                                                         *)

StrLen(s) ==
    CASE s = "" -> 0
      [] s \in {"A", "B", "a", "b", "n", "0", "5"} -> 1
      [] s = "Ali" -> 3
      [] OTHER -> 2

currentForm ==
    CASE screen = ScreenVisitForm -> visitForm
      [] screen = ScreenRestaurantForm -> restaurantForm
      [] screen = ScreenWantToVisitForm -> wantToVisitForm
      [] OTHER -> Nil

\* m.visitForm = &newForm, and its like
SetForm(f) ==
    CASE screen = ScreenVisitForm ->
             visitForm' = Some(f) /\ UNCHANGED <<restaurantForm, wantToVisitForm>>
      [] screen = ScreenRestaurantForm ->
             restaurantForm' = Some(f) /\ UNCHANGED <<visitForm, wantToVisitForm>>
      [] screen = ScreenWantToVisitForm ->
             wantToVisitForm' = Some(f) /\ UNCHANGED <<visitForm, restaurantForm>>

formFields ==
    CASE screen = ScreenVisitForm -> visitFormFields
      [] screen = ScreenRestaurantForm -> restaurantFormFields
      [] screen = ScreenWantToVisitForm -> wantToVisitFormFields

\* the index of the notes input; the restaurant form has none
notesField ==
    CASE screen = ScreenVisitForm -> 4
      [] screen = ScreenWantToVisitForm -> 2
      [] OTHER -> 0 - 1

saveCmd ==
    CASE screen = ScreenVisitForm -> "saveVisit"
      [] screen = ScreenRestaurantForm -> "saveRestaurant"
      [] screen = ScreenWantToVisitForm -> "saveWantToVisit"

tickCmd == IF screen = ScreenVisitForm THEN "debounceTick" ELSE "wtvDebounceTick"
searchCmd == IF screen = ScreenVisitForm THEN "doSearch" ELSE "wtvDoSearch"

\* what a form key leaves alone
FormKeyFrame ==
    /\ ViewUnchanged
    /\ last' = NoEvent
    /\ UNCHANGED <<screen, mode, gState, height, error, info, columnJump, returnScreen,
                   prefs, details, undoLog, world, msgs>>

\* "esc": close the dropdown if it shows, cancel the form otherwise
FormEsc ==
    /\ mode = ModeInsert
    /\ CanIssue
    /\ currentForm # Nil
    /\ IF screen # ScreenRestaurantForm /\ currentForm[1].showDropdown
       THEN SetForm([currentForm[1] EXCEPT !.showDropdown = FALSE]) /\ UNCHANGED cmds
       ELSE Issue(Cmd("formCancelled")) /\ UNCHANGED forms
    /\ FormKeyFrame

\* "ctrl+s": save() returns the closure; the inputs are read when it runs
FormSave ==
    /\ mode = ModeInsert
    /\ currentForm # Nil
    /\ CanMutate
    /\ Issue([Cmd(saveCmd) EXCEPT !.form = currentForm])
    /\ UNCHANGED forms
    /\ FormKeyFrame

\* selectSuggestion: the suggestion's name into the form, and the id of the
\* restaurant of that name, which is created when there is none; [form, db]
selectSuggestion(f, suggestion, d, t) ==
    LET existingID == findExactRestaurantID(SearchRestaurants(d, suggestion), suggestion)
        ins == InsertRestaurant(d, suggestion, t)
    IN  IF existingID # 0
        THEN [form |-> [f EXCEPT !.name = suggestion, !.restaurantName = suggestion,
                                 !.restaurantID = existingID],
              db |-> d]
        ELSE [form |-> [f EXCEPT !.name = suggestion, !.restaurantName = suggestion,
                                 !.restaurantID = ins.id],
              db |-> ins.db]

\* nextField; the visit form also closes the dropdown
nextField(f) ==
    IF screen = ScreenVisitForm
    THEN [f EXCEPT !.focusedField = (@ + 1) % formFields, !.showDropdown = FALSE]
    ELSE [f EXCEPT !.focusedField = (@ + 1) % formFields]

WithinIDs(d) ==
    /\ DOMAIN d.restaurants \subseteq 1..MaxID
    /\ DOMAIN d.visits \subseteq 1..MaxID
    /\ DOMAIN d.want_to_visit \subseteq 1..MaxID

\* "tab": with the dropdown open on the restaurant field it takes the
\* suggestion under the cursor, otherwise it moves to the next field; the
\* visit form leaves a dropdown that shows on another field alone
FormTab ==
    /\ mode = ModeInsert
    /\ CanIssue
    /\ currentForm # Nil
    /\ LET f == currentForm[1]
       IN  IF screen # ScreenRestaurantForm /\ f.showDropdown /\ f.focusedField = 0
           THEN IF f.searchCursor < Len(f.searchResults)
                THEN LET r == selectSuggestion(f, f.searchResults[f.searchCursor + 1], db, now)
                     IN  /\ WithinIDs(r.db)
                         /\ db' = r.db
                         /\ SetForm(nextField([r.form EXCEPT !.showDropdown = FALSE]))
                ELSE UNCHANGED <<db, forms>>
           ELSE IF screen = ScreenVisitForm /\ f.showDropdown
                THEN UNCHANGED <<db, forms>>
                ELSE SetForm(nextField(f)) /\ UNCHANGED db
    /\ ViewUnchanged
    /\ last' = NoEvent
    /\ UNCHANGED <<now, yelpClient, screen, mode, gState, height, error, info, columnJump,
                   returnScreen, prefs, details, undoLog, cmds, msgs>>

\* a key that reaches the focused text input and leaves it holding text.  On
\* the restaurant field it clears a restaurant id the text no longer names
\* and, with a search client, starts the debounce timer for the next sequence
\* number (text of 2 bytes or more) or clears the search state (shorter).
\* The save closure reads the same inputs, so no text is typed while a save
\* of the form waits to run.
FormType(text) ==
    /\ mode = ModeInsert
    /\ CanIssue
    /\ currentForm # Nil
    /\ CountOf(cmds, {saveCmd}) = 0
    /\ LET f == currentForm[1]
           typed == IF f.focusedField = 0 THEN [f EXCEPT !.name = text]
                    ELSE IF f.focusedField = notesField THEN [f EXCEPT !.notes = text]
                    ELSE IF screen = ScreenWantToVisitForm THEN [f EXCEPT !.priority = text]
                    ELSE IF screen # ScreenVisitForm THEN f
                    ELSE IF f.focusedField = 1 THEN [f EXCEPT !.date = text]
                    ELSE IF f.focusedField = 2 THEN [f EXCEPT !.rating = text]
                    ELSE [f EXCEPT !.wouldReturn = text]
       IN  IF screen = ScreenRestaurantForm \/ f.focusedField # 0
           THEN SetForm(typed) /\ UNCHANGED cmds
           ELSE LET cleared == IF TrimSpace(text) # f.restaurantName
                               THEN [typed EXCEPT !.restaurantID = 0] ELSE typed
                IN  IF ~f.searchClient THEN SetForm(cleared) /\ UNCHANGED cmds
                    ELSE IF StrLen(text) >= 2
                    THEN /\ f.searchSeq < MaxSeq
                         /\ SetForm([cleared EXCEPT !.searchSeq = @ + 1, !.searching = TRUE,
                                                    !.showDropdown = FALSE])
                         /\ Issue([Cmd(tickCmd) EXCEPT !.seq = f.searchSeq + 1,
                                                       !.origin = f.inst])
                    ELSE /\ SetForm([cleared EXCEPT !.showDropdown = FALSE,
                                                    !.searchResults = <<>>,
                                                    !.searching = FALSE])
                         /\ UNCHANGED cmds
    /\ FormKeyFrame

-----------------------------------------------------------------------------
(* The run of a command, the delivery of its message, the clock.           *)

\* a command's goroutine runs: one step against the repository
Run ==
    \E c \in BagToSet(cmds) :
        /\ c.type \notin {"doSearch", "wtvDoSearch"}
        /\ LET r == RunCmd(c, db, now)
           IN  /\ WithinIDs(r.db)
               /\ db' = r.db
               /\ msgs' = msgs (+) SetToBag({r.msg})
        /\ cmds' = cmds (-) SetToBag({c})
        /\ UNCHANGED <<now, yelpClient, screen, mode, gState, height, error, info,
                       columnJump, returnScreen, visits, restaurants, wantToVisit,
                       details, forms, prefs, undoLog, last>>

\* Update's type switch on a message from a command
UpdateMsg(m) ==
    CASE m.type = "ErrorMsg" -> OnErrorMsg(m)
      [] m.type = "VisitsLoadedMsg" -> VisitsLoadedMsg(m.Rows)
      [] m.type = "RestaurantsLoadedMsg" -> RestaurantsLoadedMsg(m.Rows)
      [] m.type = "WantToVisitLoadedMsg" -> WantToVisitLoadedMsg(m.Rows)
      [] m.type = "VisitDetailLoadedMsg" -> OnVisitDetailLoadedMsg(m)
      [] m.type = "RestaurantDetailLoadedMsg" -> OnRestaurantDetailLoadedMsg(m)
      [] m.type = "wantToVisitDetailLoadedMsg" -> OnWantToVisitDetailLoadedMsg(m)
      [] m.type = "VisitSavedMsg" -> OnVisitSavedMsg(m)
      [] m.type = "RestaurantSavedMsg" -> OnRestaurantSavedMsg(m)
      [] m.type = "WantToVisitSavedMsg" -> OnWantToVisitSavedMsg(m)
      [] m.type = "FormCancelledMsg" -> OnFormCancelledMsg(m)
      [] m.type = "DeleteVisitMsg" -> OnDeleteVisitMsg(m)
      [] m.type = "DeleteRestaurantMsg" -> OnDeleteRestaurantMsg(m)
      [] m.type = "DeleteWantToVisitMsg" -> OnDeleteWantToVisitMsg(m)
      [] m.type = "ConvertToVisitMsg" -> OnConvertToVisitMsg(m)
      [] m.type = "undoAppliedMsg" -> applyUndoResult(m)

Deliver(m) ==
    /\ m \in BagToSet(msgs)
    /\ m.type \notin {"debounceTick", "wtvDebounceTick",
                      "autocompleteResultMsg", "wtvAutocompleteResultMsg"}
    /\ msgs' = msgs (-) SetToBag({m})
    /\ last' = IF m.type = "FormCancelledMsg" THEN Event("cancel") ELSE NoEvent
    /\ UpdateMsg(m)

\* second 1 is the earlier session that filled the database; this session
\* runs over the MaxSec seconds after it
SeedTimes == Units .. (2 * Units - 1)
FirstMoment == 2 * Units
LastMoment == (MaxSec + 2) * Units - 1

\* time passes
Tick ==
    /\ now < LastMoment
    /\ now' = now + 1
    /\ UNCHANGED <<db, yelpClient, screen, mode, gState, height, error, info, columnJump,
                   returnScreen, visits, restaurants, wantToVisit, details, forms, prefs,
                   undoLog, cmds, msgs, last>>

-----------------------------------------------------------------------------
(* The session: ui.New and Init on a database an earlier session left.     *)

\* one restaurant with a visit and a wishlist entry, all created at t0
Seeded(t0) ==
    LET r == InsertRestaurant(EmptyDB, "A", t0)
        v == InsertVisit(r.db, [RestaurantID |-> r.id, Notes |-> "n"], t0)
    IN  InsertWantToVisit(v.db, [RestaurantID |-> r.id, Notes |-> ""], t0).db

InitialDBs == {EmptyDB} \cup {Seeded(t0) : t0 \in SeedTimes}

FormTexts == Names \cup {""}

Init ==
    /\ db \in InitialDBs
    /\ now = FirstMoment
    /\ yelpClient = FALSE
    /\ screen = ScreenVisits /\ mode = ModeNav /\ gState = GStateIdle
    /\ height = 0
    /\ error = "" /\ info = "" /\ columnJump = FALSE
    /\ returnScreen = ScreenVisits
    /\ visits = Nil /\ restaurants = Nil /\ wantToVisit = Nil
    /\ visitDetail = Nil /\ restaurantDetail = Nil /\ wantToVisitDetail = Nil
    /\ visitForm = Nil /\ restaurantForm = Nil /\ wantToVisitForm = Nil
    /\ prefs = defaultUIPreferences
    /\ undoStack = <<>> /\ redoStack = <<>>
    /\ cmds = SetToBag({Cmd("loadVisits")})
    /\ msgs = EmptyBag
    /\ nextUid = 1
    /\ last = NoEvent

\* the user types into the restaurant field
NameTyped(text) ==
    /\ currentForm # Nil
    /\ currentForm[1].focusedField = 0
    /\ FormType(text)

\* The user of this session types a restaurant's name only, leaves a form by
\* saving it and keeps the cursor on the first row of a list.
Next ==
    \/ Run
    \/ \E m \in BagToSet(msgs) : Deliver(m)
    \/ Tick
    \/ KeyUndo
    \/ KeyRedo
    \/ \E target \in TopLevelScreens : KeySwitch(target)
    \/ KeyAdd
    \/ KeyEnter
    \/ KeyVisitHere
    \/ KeyBack
    \/ KeyEdit
    \/ KeyDelete
    \/ KeyConvert
    \/ FormSave
    \/ \E text \in FormTexts : NameTyped(text)

Spec == Init /\ [][Next]_vars

-----------------------------------------------------------------------------
(* The restaurant field's autocomplete: debounce timers, lookups and their *)
(* completions in a visit or wishlist form that has a search client.       *)

SuggestionLists == {<<>>, <<"B", "A">>}

\* YelpClient.Autocomplete: nothing for an empty query; otherwise what the
\* service answers, or an error (network, status, decoding)
Autocomplete(query) ==
    IF query = "" THEN {[results |-> <<>>, err |-> FALSE]}
    ELSE {[results |-> rs, err |-> FALSE] : rs \in SuggestionLists}
             \cup {[results |-> <<>>, err |-> TRUE]}

tickTypes == {"debounceTick", "wtvDebounceTick"}
resultTypes == {"autocompleteResultMsg", "wtvAutocompleteResultMsg"}

\* the message reaches a form: Update's default case hands it to
\* handleInsertMode in Insert mode, that to the form of the screen, and the
\* form's type switch knows its own two message types
Addressed(m) ==
    /\ mode = ModeInsert
    /\ currentForm # Nil
    /\ \/ screen = ScreenVisitForm /\ m.type \in {"debounceTick", "autocompleteResultMsg"}
       \/ screen = ScreenWantToVisitForm
              /\ m.type \in {"wtvDebounceTick", "wtvAutocompleteResultMsg"}

\* a tick honoured whatever its seq, which no build of the program does
honoursTickOfAnySeq(f, m) == f.searchClient

\* case debounceTick: the condition under which doSearch is returned
honoursTick(f, m) == m.seq = f.searchSeq /\ f.searchClient

\* the body without its first line, m.searching = false, which no build of
\* the program lacks
applyResultStillSearching(f, m) ==
    IF m.err
    THEN [f EXCEPT !.error = "Search error", !.showDropdown = FALSE]
    ELSE [f EXCEPT !.error = "", !.searchResults = m.results,
                   !.searchCursor = 0, !.showDropdown = Len(m.results) > 0]

\* the body of case autocompleteResultMsg under its test of the seq
applyResult(f, m) ==
    IF m.err
    THEN [f EXCEPT !.searching = FALSE, !.error = "Search error", !.showDropdown = FALSE]
    ELSE [f EXCEPT !.searching = FALSE, !.error = "", !.searchResults = m.results,
                   !.searchCursor = 0, !.showDropdown = Len(m.results) > 0]

\* a completion applied whatever its seq, which no build of the program does
onAutocompleteResultOfAnySeq(f, m) == applyResult(f, m)

\* case autocompleteResultMsg: the form after the completion of a lookup
onAutocompleteResult(f, m) ==
    IF m.seq = f.searchSeq THEN applyResult(f, m) ELSE f

\* what a message for a form leaves alone
FormMsgFrame ==
    /\ ViewUnchanged
    /\ UNCHANGED <<screen, mode, gState, height, error, info, columnJump, returnScreen,
                   prefs, details, undoLog, world>>

\* the debounce timer's message reaches Update
DeliverTick(m) ==
    /\ m \in BagToSet(msgs)
    /\ m.type \in tickTypes
    /\ msgs' = msgs (-) SetToBag({m})
    /\ IF Addressed(m)
       THEN /\ SetForm(currentForm[1])
            /\ IF honoursTick(currentForm[1], m)
               THEN Issue([Cmd(searchCmd) EXCEPT !.seq = m.seq,
                                                 !.query = currentForm[1].name,
                                                 !.origin = currentForm[1].inst])
               ELSE UNCHANGED cmds
       ELSE UNCHANGED <<forms, cmds>>
    /\ last' = [Event("tick") EXCEPT !.seq = m.seq]
    /\ FormMsgFrame

\* doSearch's goroutine runs: the lookup completes
RunLookup ==
    \E c \in BagToSet(cmds) :
        /\ c.type \in {"doSearch", "wtvDoSearch"}
        /\ \E out \in Autocomplete(c.query) :
               msgs' = msgs (+) SetToBag({[Msg(IF c.type = "doSearch"
                                                THEN "autocompleteResultMsg"
                                                ELSE "wtvAutocompleteResultMsg")
                                              EXCEPT !.seq = c.seq,
                                                     !.origin = c.origin,
                                                     !.results = out.results,
                                                     !.err = out.err]})
        /\ cmds' = cmds (-) SetToBag({c})
        /\ UNCHANGED <<db, now, yelpClient, screen, mode, gState, height, error, info,
                       columnJump, returnScreen, visits, restaurants, wantToVisit,
                       details, forms, prefs, undoLog, last>>

\* the completion of a lookup reaches Update; last keeps the completions
\* delivered one after the other
DeliverLookup(m) ==
    /\ m \in BagToSet(msgs)
    /\ m.type \in resultTypes
    /\ msgs' = msgs (-) SetToBag({m})
    /\ IF Addressed(m)
       THEN SetForm(onAutocompleteResult(currentForm[1], m))
       ELSE UNCHANGED forms
    /\ last' = [Event("lookup") EXCEPT
                   !.seq = m.seq,
                   !.completed = (IF last.ev = "lookup" THEN last.completed ELSE <<>>)
                                     \o <<m>>]
    /\ UNCHANGED cmds
    /\ FormMsgFrame

\* "j" or "down" while the dropdown shows on the restaurant field
FormDown ==
    /\ mode = ModeInsert
    /\ CanIssue
    /\ currentForm # Nil
    /\ screen # ScreenRestaurantForm
    /\ currentForm[1].showDropdown /\ currentForm[1].focusedField = 0
    /\ SetForm([currentForm[1] EXCEPT
                   !.searchCursor = IF @ < Len(currentForm[1].searchResults) - 1
                                    THEN @ + 1 ELSE @])
    /\ UNCHANGED cmds
    /\ FormKeyFrame

SearchTexts == {"A", "Al"}

InitSearch ==
    /\ db = EmptyDB
    /\ now = FirstMoment
    /\ yelpClient = TRUE
    /\ screen = ScreenVisits /\ mode = ModeNav /\ gState = GStateIdle
    /\ height = 0
    /\ error = "" /\ info = "" /\ columnJump = FALSE
    /\ returnScreen = ScreenVisits
    /\ visits = Nil /\ restaurants = Nil /\ wantToVisit = Nil
    /\ visitDetail = Nil /\ restaurantDetail = Nil /\ wantToVisitDetail = Nil
    /\ visitForm = Nil /\ restaurantForm = Nil /\ wantToVisitForm = Nil
    /\ prefs = defaultUIPreferences
    /\ undoStack = <<>> /\ redoStack = <<>>
    /\ cmds = SetToBag({Cmd("loadVisits")})
    /\ msgs = EmptyBag
    /\ nextUid = 1
    /\ last = NoEvent

\* The user of this session changes between the visits and the wishlist and
\* opens their forms while nothing is in flight, types in the restaurant
\* field, moves in the dropdown, takes suggestions and cancels.
NextSearch ==
    \/ Run
    \/ \E m \in BagToSet(msgs) : Deliver(m)
    \/ \E target \in {ScreenVisits, ScreenWantToVisit} : InFlight = 0 /\ KeySwitch(target)
    \/ (InFlight = 0 /\ KeyAdd)
    \/ \E text \in SearchTexts :
           currentForm # Nil /\ currentForm[1].focusedField = 0 /\ FormType(text)
    \/ FormTab
    \/ FormEsc
    \/ FormDown
    \/ RunLookup
    \/ \E m \in BagToSet(msgs) : DeliverTick(m)
    \/ \E m \in BagToSet(msgs) : DeliverLookup(m)

SpecSearch == InitSearch /\ [][NextSearch]_vars

-----------------------------------------------------------------------------
(* The table engine on its own: one list screen, its table loaded with a   *)
(* result of n rows, every table key, resizes, and reloads.                *)

ColumnKeys ==
    Range(visitColumns) \cup Range(restaurantColumns) \cup Range(wantToVisitColumns)

\* cell texts that differ in case and in surrounding blanks, and blank cells
SampleCell(i, key) ==
    CASE key = "name" -> <<"b", "a", "B", " a">>[(i % 4) + 1]
      [] key = "address" -> IF i % 2 = 0 THEN "" ELSE "A"
      [] key = "date" -> IF i % 2 = 0 THEN "a" ELSE "b"
      [] OTHER -> "a"

SampleRows(n) == [i \in 1..n |-> [ID |-> i, val |-> [k \in ColumnKeys |-> SampleCell(i, k)]]]

InitTable ==
    /\ db = EmptyDB /\ now = Units /\ yelpClient = FALSE
    /\ screen \in TopLevelScreens
    /\ mode = ModeNav /\ gState = GStateIdle /\ height = 0
    /\ error = "" /\ info = "" /\ columnJump = FALSE
    /\ returnScreen = ScreenVisits
    /\ prefs = defaultUIPreferences
    /\ \E n \in 0..MaxRows :
        /\ visits = Some(ApplyPrefs(NewVisitsModel(
                        IF screen = ScreenVisits THEN SampleRows(n) ELSE <<>>), prefs.Visits))
        /\ restaurants = IF screen = ScreenRestaurants
                         THEN Some(ApplyPrefs(NewRestaurantsModel(SampleRows(n)),
                                              prefs.Restaurants))
                         ELSE Nil
        /\ wantToVisit = IF screen = ScreenWantToVisit
                         THEN Some(ApplyPrefs(NewWantToVisitModel(SampleRows(n)),
                                              prefs.WantToVisit))
                         ELSE Nil
    /\ visitDetail = Nil /\ restaurantDetail = Nil /\ wantToVisitDetail = Nil
    /\ visitForm = Nil /\ restaurantForm = Nil /\ wantToVisitForm = Nil
    /\ undoStack = <<>> /\ redoStack = <<>> /\ nextUid = 1
    /\ cmds = EmptyBag /\ msgs = EmptyBag
    /\ last = NoEvent

\* the current list's query completes with n rows
Reloaded(n) ==
    /\ CASE screen = ScreenVisits -> VisitsLoadedMsg(SampleRows(n))
         [] screen = ScreenRestaurants -> RestaurantsLoadedMsg(SampleRows(n))
         [] OTHER -> WantToVisitLoadedMsg(SampleRows(n))
    /\ last' = NoEvent
    /\ UNCHANGED msgs

\* rows and cursor: the cursor keys, gg, the filter, resizes and reloads
NextTable ==
    \/ KeyTab
    \/ KeyFilter
    \/ KeyG
    \/ KeyDown
    \/ KeyUp
    \/ KeyBottom
    \/ KeyHalfPageDown
    \/ KeyHalfPageUp
    \/ \E h \in {SmallHeight, minUsableHeight} : WindowSizeMsg(h)
    \/ \E n \in 0..MaxRows : Reloaded(n)

SpecTable == InitTable /\ [][NextTable]_vars

\* columns: the column keys, the sort key and the column-jump prompt
NextColumns ==
    \/ KeyTab
    \/ KeyShiftTab
    \/ KeySlash
    \/ KeySort
    \/ KeyHide
    \/ KeyShowAll
    \/ ColumnJumpEsc
    \/ \E n \in 1..(NumColumns + 1) : ColumnJumpDigit(n)

SpecColumns == InitTable /\ [][NextColumns]_vars

\* C8: in every reachable state of each list table the cursor is 0 when the
\* table shows no rows and within [0, len(rows)) otherwise, and offset <= cursor
CursorInRange(t) ==
    /\ IF Len(t.rows) = 0 THEN t.cursor = 0 ELSE t.cursor >= 0 /\ t.cursor < Len(t.rows)
    /\ t.offset <= t.cursor

C8_CursorAlwaysInRange ==
    /\ visits # Nil => CursorInRange(visits[1])
    /\ restaurants # Nil => CursorInRange(restaurants[1])
    /\ wantToVisit # Nil => CursorInRange(wantToVisit[1])

\* C9: on a loaded list whose record set is empty, j/k, gg, G and the
\* half-page keys are no-ops: the cursor and the offset are 0 afterwards and
\* nothing but the gg gesture state changes
EmptyListLoaded == currentTable # Nil /\ Len(currentTable[1].allRows) = 0

MovementKey ==
    KeyDown \/ KeyUp \/ KeyG \/ KeyBottom \/ KeyHalfPageDown \/ KeyHalfPageUp

C9_MovementOnEmptyListIsNoOp ==
    [][(EmptyListLoaded /\ MovementKey) =>
          /\ currentTable' = Some([currentTable[1] EXCEPT !.cursor = 0, !.offset = 0])
          /\ UNCHANGED <<screen, mode, height, error, info, columnJump, returnScreen,
                         prefs, details, forms, undoLog, world, cmds, msgs>>]_vars

\* C10: the active column of a table is visible, stays visible under any
\* number of NextColumn or PrevColumn calls, and as many calls of either as
\* there are visible columns lead back to the column they started from
ActiveAfter(Step(_), k, t) == Repeat(Step, k, t).activeColumn

C10_ColumnCycle ==
    currentTable # Nil =>
        LET t == currentTable[1]
            visible == visibleColumnIndexes(t)
            n == Cardinality(visible)
        IN  /\ t.activeColumn \in visible
            /\ \A k \in 0..n : /\ ActiveAfter(NextColumn, k, t) \in visible
                               /\ ActiveAfter(PrevColumn, k, t) \in visible
            /\ ActiveAfter(NextColumn, n, t) = t.activeColumn
            /\ ActiveAfter(PrevColumn, n, t) = t.activeColumn

\* tab has stepped over a hidden column: the column left of the active one
\* is hidden, and the saved preferences name the active column
C10_TabSkippedHiddenColumn ==
    /\ currentTable # Nil
    /\ currentTable[1].activeColumn = 2
    /\ currentTable[1].columns[2].hidden
    /\ ~currentTable[1].columns[1].hidden
    /\ ~columnJump /\ info = "Column hidden"

-----------------------------------------------------------------------------
(* The undo log and the repository under undo and redo (Spec).             *)

\* Update takes message m out of msgs
Delivered(m) == m \in BagToSet(msgs) /\ msgs' = msgs (-) SetToBag({m})

\* command c runs and returns message m
Ran(c, m) ==
    /\ c \in BagToSet(cmds) /\ cmds' = cmds (-) SetToBag({c})
    /\ msgs' = msgs (+) SetToBag({m})

UndoResult(m, direction, failed) ==
    m.type = "undoAppliedMsg" /\ m.direction = direction /\ m.err = failed

\* C1: when Update processes the failure of an undo or a redo, with no other
\* event since the u or ctrl+r that started it, both stacks are as that key
\* found them, and nothing but the error text changes
C1_FailedUndoLeavesStacksAsFound ==
    [][\A m \in BagToSet(msgs) :
          (/\ Delivered(m)
           /\ UndoResult(m, "undo", TRUE) \/ UndoResult(m, "redo", TRUE)
           /\ last.ev \in {"u", "ctrl+r"} /\ last.uid = m.action[1].uid)
          => /\ undoStack' = last.undoStack
             /\ redoStack' = last.redoStack
             /\ error' # ""
             /\ UNCHANGED <<screen, mode, info, details, forms, db>>]_vars

\* the completion messages on which Update pushes an action
Pushes(m) ==
    \/ m.type \in {"DeleteVisitMsg", "DeleteRestaurantMsg", "DeleteWantToVisitMsg",
                   "ConvertToVisitMsg"}
    \/ /\ m.type \in {"VisitSavedMsg", "RestaurantSavedMsg", "WantToVisitSavedMsg"}
       /\ m.Operation = "insert" \/ (m.Operation = "update" /\ m.Before # <<>>)

\* the record the action of completion message m holds
Subject(m) == IF m.Deleted # <<>> THEN m.Deleted[1] ELSE m.After[1]

\* C2: right after Update has processed the completion of a forward mutation
\* (a save, a delete or a convert), the redo stack is empty and the action
\* built from that completion is on top of the undo stack, above the entries
\* that were there
C2_PushClearsRedoStack ==
    [][\A m \in BagToSet(msgs) :
          (Delivered(m) /\ Pushes(m))
          => /\ redoStack' = <<>>
             /\ Len(undoStack') = Len(undoStack) + 1
             /\ Front(undoStack') = undoStack
             /\ Last(undoStack').uid = nextUid
             /\ Last(undoStack').rec = Subject(m)]_vars

\* a second action has been pushed while the first one, undone, waited on
\* the redo stack: the first is gone, the second alone on the undo stack
C2_PushDiscardedUndoneAction ==
    /\ nextUid = 3
    /\ Len(undoStack) = 1 /\ undoStack[1].uid = 2
    /\ redoStack = <<>>
    /\ error = ""
    /\ info \in {"Visit saved", "Restaurant saved", "Want-to-visit entry saved",
                 "Visit deleted (u to undo)", "Restaurant deleted (u to undo)",
                 "Want-to-visit entry deleted (u to undo)",
                 "Converted to visit (u to undo)"}

\* C3: u hands the top of the undo stack to the undo command; when the undo
\* has succeeded, that action is on top of the redo stack and no longer on
\* the undo stack, and the entries below keep their order on both stacks.
\* ctrl+r and a successful redo do the same in the other direction.
C3_UndoRedoMoveTopAction ==
    [][\A m \in BagToSet(msgs) :
          /\ (Delivered(m) /\ UndoResult(m, "undo", FALSE))
             => /\ redoStack' = Append(redoStack, m.action[1])
                /\ undoStack' = undoStack
                /\ \A i \in DOMAIN undoStack' : undoStack'[i].uid # m.action[1].uid
                /\ last.ev = "u" => /\ m.action[1] = Last(last.undoStack)
                                    /\ undoStack' = Front(last.undoStack)
                                    /\ redoStack' = Append(last.redoStack, Last(last.undoStack))
          /\ (Delivered(m) /\ UndoResult(m, "redo", FALSE))
             => /\ undoStack' = Append(undoStack, m.action[1])
                /\ redoStack' = redoStack
                /\ \A i \in DOMAIN redoStack' : redoStack'[i].uid # m.action[1].uid
                /\ last.ev = "ctrl+r" => /\ m.action[1] = Last(last.redoStack)
                                         /\ redoStack' = Front(last.redoStack)
                                         /\ undoStack' = Append(last.undoStack,
                                                                Last(last.redoStack))]_vars

\* two actions were undone and the first of them redone: one action on each
\* stack, the one undone last back on the undo stack
C3_UndoneTwiceRedoneOnce ==
    /\ Len(undoStack) = 1 /\ Len(redoStack) = 1
    /\ undoStack[1].uid = 1 /\ redoStack[1].uid = 2
    /\ info \in {"Redid: visit saved", "Redid: visit updated", "Redid: restaurant saved",
                 "Redid: restaurant updated", "Redid: want_to_visit saved",
                 "Redid: want_to_visit updated", "Redid: visit deleted",
                 "Redid: want_to_visit deleted", "Redid: restaurant deleted",
                 "Redid: converted want_to_visit"}

\* the record of the table action a is about, as the repository returns it
Stored(d, a) ==
    CASE a.label \in {"visit saved", "visit updated", "visit deleted"} ->
             GetVisit(d, a.rec.ID)
      [] a.label \in {"restaurant saved", "restaurant updated", "restaurant deleted"} ->
             GetRestaurant(d, a.rec.ID)
      [] OTHER -> GetWantToVisit(d, a.rec.ID)

\* C6: when the undo of a restaurant delete has run without error, the
\* restaurant is back under its id and the visits and the wishlist entries
\* of that restaurant are, ids and fields, those the delete took along; an
\* undo that fails on the restaurant has inserted no dependent row; when the
\* redo has run, the restaurant and its dependents are gone again
C6_UndoOfCascadeDeleteRestoresDependents ==
    [][\A c \in BagToSet(cmds) : \A m \in BagToSet(msgs') :
          (Ran(c, m) /\ c.type \in {"undo", "redo"}
                     /\ c.action[1].label = "restaurant deleted")
          => LET a == c.action[1]
                 id == a.rec.ID
             IN  /\ (c.type = "undo" /\ ~m.err)
                    => /\ GetRestaurant(db', id) # <<>>
                       /\ Range(GetVisitsByRestaurant(db', id)) = Range(a.visits)
                       /\ Range(GetWantToVisitByRestaurant(db', id)) = Range(a.entries)
                 /\ (c.type = "undo" /\ m.err /\ GetRestaurant(db, id) # <<>>)
                    => db' = db
                 /\ c.type = "redo"
                    => /\ ~m.err
                       /\ GetRestaurant(db', id) = <<>>
                       /\ GetVisitsByRestaurant(db', id) = <<>>
                       /\ GetWantToVisitByRestaurant(db', id) = <<>>]_vars

\* C7: when the undo of an insert has removed the inserted record, a redo of
\* that action, whenever it runs, succeeds and leaves a record with the id
\* and the field values of the record removed
C7_UndoThenRedoOfInsertRestoresRecord ==
    [][\A c \in BagToSet(cmds) : \A m \in BagToSet(msgs') :
          (/\ Ran(c, m) /\ c.type = "undo" /\ ~m.err
           /\ c.action[1].label \in {"visit saved", "restaurant saved", "want_to_visit saved"}
           /\ Stored(db, c.action[1]) # <<>>)
          => /\ Stored(db', c.action[1]) = <<>>
             /\ \A t \in now..LastMoment :
                    /\ ~Redo(c.action[1], db', t).err
                    /\ Stored(Redo(c.action[1], db', t).db, c.action[1])
                           = Stored(db, c.action[1])]_vars

-----------------------------------------------------------------------------
(* The autocomplete pipeline: stale completions and stale timers.          *)

\* the dropdown state of a form
SearchState(f) ==
    [searchResults |-> f.searchResults, searchCursor |-> f.searchCursor,
     showDropdown |-> f.showDropdown, searching |-> f.searching, error |-> f.error]

\* the seqs of the completions delivered one after the other
CompletedSeqs == [i \in DOMAIN last.completed |-> last.completed[i].seq]

\* C4: in a visit or wishlist form, the completion of a lookup (success or
\* error) whose seq differs from the form's searchSeq changes nothing:
\* searchResults, searchCursor, showDropdown, searching and the form's error
\* text stay as they were.  In particular, when the lookups with seqs 1, 2, 3
\* complete in the order 3, 1, 2, the dropdown state is the one the
\* completion tagged 3 left.
C4_StaleCompletionIgnored ==
    /\ [][\A m \in BagToSet(msgs) :
             (Delivered(m) /\ m.type \in resultTypes /\ Addressed(m)
                 /\ m.seq # currentForm[1].searchSeq)
             => /\ UNCHANGED <<screen, mode>>
                /\ SearchState(currentForm[1])' = SearchState(currentForm[1])]_vars
    /\ [](  (last.ev = "lookup" /\ CompletedSeqs = <<3, 1, 2>>
               /\ Addressed(last.completed[1]) /\ currentForm[1].searchSeq = 3)
           => LET third == last.completed[1]
                  f == currentForm[1]
              IN  /\ ~f.searching
                  /\ IF third.err
                     THEN f.error = "Search error" /\ ~f.showDropdown
                     ELSE /\ f.error = ""
                          /\ f.searchResults = third.results
                          /\ f.searchCursor = 0
                          /\ f.showDropdown = (Len(third.results) > 0))

\* the completions of the lookups 3, 1, 2 were delivered in this order to the
\* form that issued them, each with another outcome, and the dropdown shows
\* the suggestions of the third lookup
C4_ThreeLookupsCompletedOutOfOrder ==
    /\ last.ev = "lookup" /\ CompletedSeqs = <<3, 1, 2>>
    /\ Addressed(last.completed[1])
    /\ currentForm[1].searchSeq = 3
    /\ ~last.completed[1].err /\ last.completed[1].results = <<"B", "A">>
    /\ ~last.completed[2].err /\ last.completed[2].results = <<>>
    /\ last.completed[3].err
    /\ currentForm[1].showDropdown
    /\ currentForm[1].searchResults = <<"B", "A">>

\* C5: a debounce tick is honoured only when its seq is the form's searchSeq:
\* a tick with another seq issues no lookup and changes no state, and a tick
\* with the current seq issues exactly one lookup, tagged with that seq.
C5_TickHonouredOnlyWhenCurrent ==
    [][\A m \in BagToSet(msgs) :
          (Delivered(m) /\ m.type \in tickTypes /\ Addressed(m))
          => IF m.seq = currentForm[1].searchSeq
             THEN /\ \E c \in BagToSet(cmds') :
                        /\ c.type = searchCmd /\ c.seq = m.seq
                        /\ cmds' = cmds (+) SetToBag({c})
                  /\ UNCHANGED <<forms, screen, mode>>
             ELSE UNCHANGED <<cmds, db, now, yelpClient, screen, mode, gState, height,
                              error, info, columnJump, returnScreen, visits,
                              restaurants, wantToVisit, details, forms, prefs,
                              undoLog>>]_vars

\* the timer of an edit that has been superseded fired and was dropped, after
\* the timer of the current edit had its lookup issued
C5_StaleTickDroppedAfterCurrentHonoured ==
    /\ last.ev = "tick"
    /\ mode = ModeInsert /\ currentForm # Nil
    /\ last.seq = 1 /\ currentForm[1].searchSeq = 2
    /\ BagToSet(msgs) = {}
    /\ \E c \in BagToSet(cmds) : c.type = searchCmd /\ c.seq = 2 /\ cmds = SetToBag({c})

-----------------------------------------------------------------------------
(* The column keys on a table that took its preferences from a stored      *)
(* ui_prefs.json.                                                          *)

\* the names of the columns the model keeps of a table
KeptKeys(keys) == {keys[i] : i \in 1..NumColumns}

\* what json.Unmarshal can leave in a TablePrefs: any sort, any set of names
\* as hidden columns, any name as the active column; "zip" is no column
StoredPrefs(keys) ==
    [SortKey : {"", keys[1]}, SortDesc : {FALSE},
     HiddenColumns : SUBSET (KeptKeys(keys) \cup {"zip"}),
     ActiveColumn : {"", "zip"} \cup KeptKeys(keys)]

screenColumns(scr) ==
    CASE scr = ScreenVisits -> visitColumns
      [] scr = ScreenRestaurants -> restaurantColumns
      [] scr = ScreenWantToVisit -> wantToVisitColumns

screenPrefs(p, scr) ==
    CASE scr = ScreenVisits -> p.Visits
      [] scr = ScreenRestaurants -> p.Restaurants
      [] scr = ScreenWantToVisit -> p.WantToVisit

\* ui.New with loadUIPreferences reading a stored file, and the first list
\* loaded on the screen the user went to
InitPrefs ==
    /\ db = EmptyDB /\ now = Units /\ yelpClient = FALSE
    /\ screen \in TopLevelScreens
    /\ mode = ModeNav /\ gState = GStateIdle /\ height = 0
    /\ error = "" /\ info = "" /\ columnJump = FALSE
    /\ returnScreen = ScreenVisits
    /\ \E p \in StoredPrefs(screenColumns(screen)) :
           prefs = CASE screen = ScreenVisits -> [defaultUIPreferences EXCEPT !.Visits = p]
                     [] screen = ScreenRestaurants ->
                            [defaultUIPreferences EXCEPT !.Restaurants = p]
                     [] screen = ScreenWantToVisit ->
                            [defaultUIPreferences EXCEPT !.WantToVisit = p]
    /\ \E n \in 0..MaxRows :
        /\ visits = Some(ApplyPrefs(NewVisitsModel(
                        IF screen = ScreenVisits THEN SampleRows(n) ELSE <<>>), prefs.Visits))
        /\ restaurants = IF screen = ScreenRestaurants
                         THEN Some(ApplyPrefs(NewRestaurantsModel(SampleRows(n)),
                                              prefs.Restaurants))
                         ELSE Nil
        /\ wantToVisit = IF screen = ScreenWantToVisit
                         THEN Some(ApplyPrefs(NewWantToVisitModel(SampleRows(n)),
                                              prefs.WantToVisit))
                         ELSE Nil
    /\ visitDetail = Nil /\ restaurantDetail = Nil /\ wantToVisitDetail = Nil
    /\ visitForm = Nil /\ restaurantForm = Nil /\ wantToVisitForm = Nil
    /\ undoStack = <<>> /\ redoStack = <<>> /\ nextUid = 1
    /\ cmds = EmptyBag /\ msgs = EmptyBag
    /\ last = NoEvent

\* the column keys, and reloads of the list, which apply the saved preferences
\* to a fresh table
NextPrefs ==
    \/ KeyTab
    \/ KeyShiftTab
    \/ KeyHide
    \/ KeyShowAll
    \/ KeySort
    \/ \E n \in 0..MaxRows : Reloaded(n)

SpecPrefs == InitPrefs /\ [][NextPrefs]_vars

OneColumnVisible(t) ==
    /\ visibleColumnIndexes(t) # {}
    /\ t.activeColumn \in visibleColumnIndexes(t)

\* C11: HideActiveColumn returns false and changes nothing when exactly one
\* column is visible; in every reachable state of a table, the state right
\* after stored preferences naming any set of hidden columns were applied to a
\* freshly loaded table included, at least one column is visible and the
\* active column is visible; so it is after a hide that succeeds.
C11_OneColumnStaysVisible ==
    /\ visits # Nil => OneColumnVisible(visits[1])
    /\ restaurants # Nil => OneColumnVisible(restaurants[1])
    /\ wantToVisit # Nil => OneColumnVisible(wantToVisit[1])
    /\ currentTable # Nil =>
           LET t == currentTable[1]
           IN  /\ \A p \in StoredPrefs(screenColumns(screen)) :
                      OneColumnVisible(ApplyPrefs([t EXCEPT !.rows = t.allRows], p))
               /\ IF Cardinality(visibleColumnIndexes(t)) = 1
                  THEN ~HideActiveColumnOk(t) /\ HideActiveColumn(t) = t
                  ELSE HideActiveColumnOk(t) /\ OneColumnVisible(HideActiveColumn(t))

\* the stored preferences named every column as hidden, the table shows its
\* first column alone, and "c" has been refused
C11_HideRefusedOnLastColumn ==
    /\ currentTable # Nil
    /\ KeptKeys(screenColumns(screen)) \subseteq screenPrefs(prefs, screen).HiddenColumns
    /\ visibleColumnIndexes(currentTable[1]) = {0}
    /\ info = "Cannot hide last visible column"

-----------------------------------------------------------------------------
(* The rows of a table: sorted by "s" or by the stored preferences,        *)
(* filtered by "n" on the cell under the cursor, reloaded.                 *)

NextRows ==
    \/ KeyTab
    \/ KeySort
    \/ KeyFilter
    \/ KeyDown
    \/ \E n \in 0..MaxRows : Reloaded(n)

SpecRows == InitPrefs /\ [][NextRows]_vars

FilterSet(t) == t.filterKey # "" /\ t.filterValue # ""

\* the record's projection on the filter column equals the filter value, case
\* ignored
MatchesExactly(t, r) == EqualFold(getValue(r, t.filterKey), t.filterValue)

\* the same with the blanks around both texts ignored, the filter value
\* lower-cased before the comparison
MatchesTrimmed(t, r) ==
    EqualFold(TrimSpace(getValue(r, t.filterKey)), ToLower(TrimSpace(t.filterValue)))

\* rows holds each record of allRows that Matches (every record without a
\* filter) once, and nothing else
PermutationOfFiltered(t, Matches(_, _)) ==
    LET wanted == {r \in Range(t.allRows) : ~FilterSet(t) \/ Matches(t, r)}
    IN  /\ Range(t.rows) = wanted
        /\ Len(t.rows) = Cardinality(wanted)

\* with a sort key, rows ascends (descends) in the lower-cased projection,
\* and records whose lower-cased projections are equal descend in id
Ordered(t) ==
    t.sortKey # "" =>
        \A i, j \in DOMAIN t.rows :
            i < j =>
                LET left == ToLower(getValue(t.rows[i], t.sortKey))
                    right == ToLower(getValue(t.rows[j], t.sortKey))
                IN  IF left = right THEN t.rows[i].ID > t.rows[j].ID
                    ELSE IF t.sortDesc THEN StrLess(right, left) ELSE StrLess(left, right)

RebuiltAsClaimed(t) ==
    /\ PermutationOfFiltered(t, MatchesExactly) /\ Ordered(t)
    /\ PermutationOfFiltered(rebuild(t), MatchesExactly) /\ Ordered(rebuild(t))

RebuiltTrimmed(t) ==
    /\ PermutationOfFiltered(t, MatchesTrimmed) /\ Ordered(t)
    /\ PermutationOfFiltered(rebuild(t), MatchesTrimmed) /\ Ordered(rebuild(t))

\* C12 as stated: rows is a permutation of exactly the records of allRows
\* whose filter-column projection equals filterValue case-insensitively (all
\* of allRows without a filter), ordered by the lower-cased sort projection
\* in the chosen direction, equal projections in descending id order.
C12_RowsAreExactMatchesSorted ==
    /\ visits # Nil => RebuiltAsClaimed(visits[1])
    /\ restaurants # Nil => RebuiltAsClaimed(restaurants[1])
    /\ wantToVisit # Nil => RebuiltAsClaimed(wantToVisit[1])

\* C12 amended: the same, with the filter comparing the projection and the
\* filter value after the blanks around each have been removed.
C12_RowsAreTrimmedMatchesSorted ==
    /\ visits # Nil => RebuiltTrimmed(visits[1])
    /\ restaurants # Nil => RebuiltTrimmed(restaurants[1])
    /\ wantToVisit # Nil => RebuiltTrimmed(wantToVisit[1])

\* a filter holds back a record, and a descending sort shows two records
\* whose projections are equal
C12_FilteredAndSortedDescending ==
    /\ currentTable # Nil
    /\ LET t == currentTable[1]
       IN  /\ FilterSet(t) /\ Len(t.rows) < Len(t.allRows)
           /\ t.sortKey # "" /\ t.sortDesc
           /\ \E i, j \in DOMAIN t.rows :
                  /\ i < j
                  /\ ToLower(getValue(t.rows[i], t.sortKey))
                         = ToLower(getValue(t.rows[j], t.sortKey))

-----------------------------------------------------------------------------
(* The sort cycle of "s".                                                  *)

SortCycle(t) ==
    LET first == CycleSortActiveColumn(t)
        second == CycleSortActiveColumn(first)
        third == CycleSortActiveColumn(second)
    IN  t.sortKey = "" =>
            /\ first.sortKey = activeKey(t) /\ ~first.sortDesc
            /\ PermutationOfFiltered(first, MatchesTrimmed) /\ Ordered(first)
            /\ second.sortKey = activeKey(t) /\ second.sortDesc
            /\ PermutationOfFiltered(second, MatchesTrimmed) /\ Ordered(second)
            /\ third.sortKey = "" /\ ~third.sortDesc
            /\ third.rows = t.rows

\* C13: three calls of CycleSortActiveColumn in a row on the same active
\* column, starting with no sort key, sort ascending, then descending, then
\* clear the sort, and end with sortKey empty, sortDesc false and rows in the
\* order they had before the first call.
C13_ThreeSortsComeBack ==
    /\ visits # Nil => SortCycle(visits[1])
    /\ restaurants # Nil => SortCycle(restaurants[1])
    /\ wantToVisit # Nil => SortCycle(wantToVisit[1])

\* "s" has just cleared a sort that had reordered the rows
C13_SortClearedAfterReordering ==
    /\ currentTable # Nil
    /\ info = "Sorting cleared"
    /\ LET t == currentTable[1]
       IN  /\ t.sortKey = "" /\ ~t.sortDesc
           /\ CycleSortActiveColumn(t).rows # t.rows
           /\ CycleSortActiveColumn(CycleSortActiveColumn(t)).rows # t.rows

-----------------------------------------------------------------------------
(* The "gg" gesture.                                                       *)

\* a key of the list screens other than "g"
OtherKey ==
    \/ KeyTab
    \/ KeyFilter
    \/ KeyDown
    \/ KeyUp
    \/ KeyBottom
    \/ KeyHalfPageDown
    \/ KeyHalfPageUp

\* C14: from Idle a "g" moves to awaiting-second-g with no other effect; a
\* second "g" puts the current list at its top and returns to Idle; any other
\* key returns the gesture to Idle, so that g, non-g, g never jumps.
C14_GestureIsTwoStateMachine ==
    [][/\ (KeyG /\ gState = GStateIdle) =>
              gState' = GStateFirstG /\ currentTable' = currentTable
       /\ (KeyG /\ gState = GStateFirstG) =>
              /\ gState' = GStateIdle
              /\ currentTable # Nil => currentTable' = Some(JumpToTop(currentTable[1]))
       /\ OtherKey => gState' = GStateIdle]_vars

-----------------------------------------------------------------------------
(* The column-jump prompt of "/".                                          *)

\* column d of the table exists and is shown
ColumnShown(t, d) == (d - 1) \in visibleColumnIndexes(t)

-----------------------------------------------------------------------------
(* Reloads after a mutation.                                               *)

\* message m reports a mutation of visit or restaurant data that has been
\* applied: a forward save or delete, or an undo or redo that succeeded
CompletedVisitOrRestaurantMutation(m) ==
    \/ m.type \in {"VisitSavedMsg", "RestaurantSavedMsg", "DeleteVisitMsg",
                   "DeleteRestaurantMsg"}
    \/ /\ m.type = "undoAppliedMsg" /\ ~m.err
       /\ m.action[1].label \in {"visit saved", "visit updated", "visit deleted",
                                 "restaurant saved", "restaurant updated",
                                 "restaurant deleted"}

\* the step issues command c
Issued(c) == CopiesIn(c, cmds') > CopiesIn(c, cmds)

\* C16: every completed mutation of visit or restaurant data issues a reload
\* of both the visits list and the restaurants list, whichever screen is
\* active.
C16_MutationReloadsVisitsAndRestaurants ==
    [][\A m \in BagToSet(msgs) :
          (Delivered(m) /\ CompletedVisitOrRestaurantMutation(m)) =>
              Issued(Cmd("loadVisits")) /\ Issued(Cmd("loadRestaurants"))]_vars

-----------------------------------------------------------------------------
(* Saving a visit or wishlist form whose inputs save refuses.              *)

SaveTexts == {"A", "0"}

\* the user opens the visit or the wishlist form, fills it in and saves it
NextSave ==
    \/ Run
    \/ \E m \in BagToSet(msgs) : Deliver(m)
    \/ \E target \in {ScreenVisits, ScreenWantToVisit} : InFlight = 0 /\ KeySwitch(target)
    \/ InFlight = 0 /\ KeyAdd
    \/ FormTab
    \/ FormSave
    \/ \E text \in SaveTexts : FormType(text)

SpecSave == Init /\ [][NextSave]_vars

\* the message save returns for an input it refuses
RefusedInput(m) == m.type = "ErrorMsg" /\ m.Err \in validationErrors

\* C17: when the save of a visit or wishlist form fails validation, that
\* save attempt has inserted, updated or deleted no repository row, and
\* nothing is pushed to the undo log.
C17_RefusedSaveChangesNothing ==
    [][/\ \A c \in BagToSet(cmds) : \A m \in BagToSet(msgs') :
              (/\ Ran(c, m)
               /\ c.type \in {"saveVisit", "saveWantToVisit"}
               /\ RefusedInput(m)) => db' = db
       /\ \A m \in BagToSet(msgs) :
              (Delivered(m) /\ RefusedInput(m)) => UNCHANGED <<undoStack, redoStack>>]_vars

-----------------------------------------------------------------------------
(* The undo log and the completion of a repository call.                   *)

\* the errors deleteVisitCmd, deleteRestaurantCmd, deleteWantToVisitCmd,
\* convertToVisitCmd and the save closures return when the repository fails
repositoryErrors ==
    {"failed to load visit before delete", "failed to load restaurant before delete",
     "failed to load want_to_visit before delete", "failed to load convert source",
     "sql: no rows in result set"}

\* a list table apart from the height View stores in it when it draws
Shown(table) == IF table = Nil THEN Nil ELSE Some([table[1] EXCEPT !.viewportHeight = 0])

\* the step processes an ErrorMsg and does no more than set the error
ErrorOnlySetsError ==
    \A m \in BagToSet(msgs) :
        (Delivered(m) /\ m.type = "ErrorMsg") =>
            /\ error' = m.Err
            /\ Shown(visits') = Shown(visits)
            /\ Shown(restaurants') = Shown(restaurants)
            /\ Shown(wantToVisit') = Shown(wantToVisit)
            /\ UNCHANGED <<undoStack, redoStack, info, screen, mode, gState,
                           columnJump, returnScreen, prefs, details, forms, cmds>>

\* C18 as stated: undoStack gains an action only when the completion message
\* of a forward mutation the repository has applied is processed; when the
\* repository call fails (ErrorMsg), undoStack, redoStack and every list
\* table are unchanged and only the error message is set.
C18_UndoLogFollowsForwardCompletions ==
    [][/\ Len(undoStack') > Len(undoStack) =>
              \E m \in BagToSet(msgs) : Delivered(m) /\ m.type \in mutationMsgs
       /\ ErrorOnlySetsError]_vars

\* C18 amended: undoStack gains an action only when the completion message
\* of a forward mutation the repository has applied, or of a redo that
\* succeeded, is processed; the rest as stated.
C18_UndoLogFollowsCompletions ==
    [][/\ Len(undoStack') > Len(undoStack) =>
              \E m \in BagToSet(msgs) :
                  /\ Delivered(m)
                  /\ m.type \in mutationMsgs \/ UndoResult(m, "redo", FALSE)
       /\ ErrorOnlySetsError]_vars

\* a repository call of a mutation has failed and its ErrorMsg has been
\* processed with an action on the redo stack
C18_RepositoryErrorShown ==
    /\ error \in repositoryErrors
    /\ msgs = EmptyBag /\ cmds = EmptyBag
    /\ redoStack # <<>>

-----------------------------------------------------------------------------
(* Repository calls in flight.  Bubble Tea runs every command in a         *)
(* goroutine of its own, and Update takes the next key while they run.     *)

\* the session of Init with a search client, whose user does not wait for a
\* command to complete before the next key
InitHasty ==
    /\ db \in InitialDBs
    /\ now = FirstMoment
    /\ yelpClient = TRUE
    /\ screen = ScreenVisits /\ mode = ModeNav /\ gState = GStateIdle
    /\ height = 0
    /\ error = "" /\ info = "" /\ columnJump = FALSE
    /\ returnScreen = ScreenVisits
    /\ visits = Nil /\ restaurants = Nil /\ wantToVisit = Nil
    /\ visitDetail = Nil /\ restaurantDetail = Nil /\ wantToVisitDetail = Nil
    /\ visitForm = Nil /\ restaurantForm = Nil /\ wantToVisitForm = Nil
    /\ prefs = defaultUIPreferences
    /\ undoStack = <<>> /\ redoStack = <<>>
    /\ cmds = SetToBag({Cmd("loadVisits")})
    /\ msgs = EmptyBag
    /\ nextUid = 1
    /\ last = NoEvent

NextHasty ==
    \/ Run
    \/ \E m \in BagToSet(msgs) : Deliver(m)
    \/ KeyEnter
    \/ KeyDelete
    \/ KeyUndo
    \/ KeyRedo

SpecHasty == InitHasty /\ [][NextHasty]_vars

\* the repository mutation calls that are outstanding: issued, and the
\* completion not yet processed
Outstanding ==
    CountOf(cmds, mutationCmds \cup {"undo", "redo"})
        + CountOf(msgs, mutationMsgs \cup {"undoAppliedMsg"})

\* C19: at any time at most one repository mutation call issued by the UI
\* (save, delete, convert, undo or redo) is outstanding.
C19_OneMutationOutstanding == Outstanding <= 1

-----------------------------------------------------------------------------
(* The status banners.                                                     *)

\* C20: after every processed event at most one status message is shown:
\* the error text and the info text are never both non-empty.
C20_OneStatusMessage == ~(error # "" /\ info # "")

-----------------------------------------------------------------------------
(* Forms opened from a list or from a detail screen, saved or cancelled.   *)

NextForms ==
    \/ Run
    \/ \E m \in BagToSet(msgs) : Deliver(m)
    \/ \E target \in TopLevelScreens : KeySwitch(target)
    \/ KeyAdd
    \/ KeyEnter
    \/ KeyVisitHere
    \/ KeyBack
    \/ KeyEdit
    \/ KeyConvert
    \/ FormSave
    \/ FormEsc
    \/ \E text \in FormTexts : NameTyped(text)

SpecForms == Init /\ [][NextForms]_vars

\* the step processes a FormCancelledMsg: Nav mode, no form, and the screen
\* that returnScreen recorded
CancelReturns ==
    \A m \in BagToSet(msgs) :
        (Delivered(m) /\ m.type = "FormCancelledMsg") =>
            /\ mode' = ModeNav
            /\ visitForm' = Nil /\ restaurantForm' = Nil /\ wantToVisitForm' = Nil
            /\ screen' = returnScreen

\* returnScreen is not touched while a form is open
ConvertDelivered ==
    \E m \in BagToSet(msgs) : Delivered(m) /\ m.type = "ConvertToVisitMsg"

KeptWhileOpen ==
    (mode = ModeInsert /\ mode' = ModeInsert /\ ~ConvertDelivered) =>
        returnScreen' = returnScreen

\* C21 as stated: a cancelled form gives Nav mode, no form model, and the
\* list or detail screen from which Insert mode was entered.
C21_CancelReturnsWhereFormWasOpened ==
    [][/\ (mode = ModeNav /\ mode' = ModeInsert) => returnScreen' = screen
       /\ KeptWhileOpen
       /\ CancelReturns]_vars

\* C21 amended: the same, but the visit form that a conversion opens
\* returns to the wishlist, whatever screen showed when the conversion
\* completed.
C21_CancelReturnsToRecordedScreen ==
    [][/\ ConvertDelivered => returnScreen' = ScreenWantToVisit
       /\ (mode = ModeNav /\ mode' = ModeInsert /\ ~ConvertDelivered) =>
              returnScreen' = screen
       /\ KeptWhileOpen
       /\ CancelReturns]_vars

\* a form opened from a detail screen has been cancelled, and the detail
\* shows again
C21_CancelledBackToDetail ==
    /\ last.ev = "cancel"
    /\ mode = ModeNav
    /\ screen \in {ScreenVisitDetail, ScreenRestaurantDetail, ScreenWantToVisitDetail}

\* C22: when a form save succeeds (VisitSavedMsg, RestaurantSavedMsg,
\* WantToVisitSavedMsg), mode becomes Nav and screen becomes the recorded
\* returnScreen: the detail screen when the form was opened from one.
C22_SaveReturnsToRecordedScreen ==
    [][\A m \in BagToSet(msgs) :
          (/\ Delivered(m)
           /\ m.type \in {"VisitSavedMsg", "RestaurantSavedMsg", "WantToVisitSavedMsg"}) =>
              mode' = ModeNav /\ screen' = returnScreen]_vars

-----------------------------------------------------------------------------
(* The save of a new visit for a restaurant that is not in the database.   *)

\* command c saves a new visit whose restaurant field names no restaurant of
\* database d, case and surrounding blanks ignored
NewVisitForNewRestaurant(c, d) ==
    /\ c.type = "saveVisit"
    /\ c.form[1].id = 0 /\ c.form[1].restaurantID = 0
    /\ \A i \in DOMAIN d.restaurants :
           ToLower(TrimSpace(d.restaurants[i].name)) # ToLower(TrimSpace(c.form[1].name))

-----------------------------------------------------------------------------
(* The shortest text that is looked up.                                    *)

\* C24: no lookup is issued with a query shorter than 2 characters, and the
\* dropdown is never visible while the restaurant field holds fewer than 2
\* characters.
C24_LookupNeedsTwoCharacters ==
    /\ \A c \in BagToSet(cmds) :
           c.type \in {"doSearch", "wtvDoSearch"} => StrLen(c.query) >= 2
    /\ visitForm # Nil /\ visitForm[1].showDropdown => StrLen(visitForm[1].name) >= 2
    /\ wantToVisitForm # Nil /\ wantToVisitForm[1].showDropdown =>
           StrLen(wantToVisitForm[1].name) >= 2

-----------------------------------------------------------------------------
(* The filter of "n" set and removed again.                                *)

\* cell texts of a list of places: a name that begins with a letter whose
\* lower case is not its case fold, names in two cases, blank addresses
PlaceCell(i, key) ==
    CASE key = "name" -> <<"U+0130", "a", "A">>[(i % 3) + 1]
      [] key = "address" -> IF i % 2 = 0 THEN "" ELSE "A"
      [] OTHER -> "a"

PlaceRows(n) == [i \in 1..n |-> [ID |-> i, val |-> [k \in ColumnKeys |-> PlaceCell(i, k)]]]

\* one list screen, its table loaded with a result of n places
InitFilter ==
    /\ db = EmptyDB /\ now = Units /\ yelpClient = FALSE
    /\ screen \in TopLevelScreens
    /\ mode = ModeNav /\ gState = GStateIdle /\ height = 0
    /\ error = "" /\ info = "" /\ columnJump = FALSE
    /\ returnScreen = ScreenVisits
    /\ prefs = defaultUIPreferences
    /\ \E n \in 0..MaxRows :
        /\ visits = Some(NewVisitsModel(IF screen = ScreenVisits THEN PlaceRows(n) ELSE <<>>))
        /\ restaurants = IF screen = ScreenRestaurants
                         THEN Some(NewRestaurantsModel(PlaceRows(n))) ELSE Nil
        /\ wantToVisit = IF screen = ScreenWantToVisit
                         THEN Some(NewWantToVisitModel(PlaceRows(n))) ELSE Nil
    /\ visitDetail = Nil /\ restaurantDetail = Nil /\ wantToVisitDetail = Nil
    /\ visitForm = Nil /\ restaurantForm = Nil /\ wantToVisitForm = Nil
    /\ undoStack = <<>> /\ redoStack = <<>> /\ nextUid = 1
    /\ cmds = EmptyBag /\ msgs = EmptyBag
    /\ last = NoEvent

NextFilter ==
    \/ KeyTab
    \/ KeySort
    \/ KeyFilter
    \/ KeyDown
    \/ KeyUp

SpecFilter == InitFilter /\ [][NextFilter]_vars

ClearFilter(t) ==
    IF t.filterKey = "" THEN t
    ELSE rebuild([t EXCEPT !.filterKey = "", !.filterValue = ""])

Unfiltered(t) ==
    t.filterKey = "" /\ t.filterValue = "" /\ Len(t.rows) = Len(t.allRows)

FilterToggles(t) ==
    /\ Unfiltered(ClearFilter(t))
    /\ (t.filterKey = "" /\ Len(t.rows) > 0) =>
           IF selectedValue(t) = ""
           THEN CycleFilterBySelectedValue(t) = t
           ELSE Unfiltered(CycleFilterBySelectedValue(CycleFilterBySelectedValue(t)))

\* C25: after ClearFilter, or after a second CycleFilterBySelectedValue in a
\* row on the same active column starting from no filter, filterKey and
\* filterValue are empty and rows is as long as allRows; a cell whose trimmed
\* value is empty never sets a filter.
C25_FilterSetFromCellIsRemoved ==
    /\ visits # Nil => FilterToggles(visits[1])
    /\ restaurants # Nil => FilterToggles(restaurants[1])
    /\ wantToVisit # Nil => FilterToggles(wantToVisit[1])

-----------------------------------------------------------------------------
(* The completion of the current lookup.                                   *)

\* the step hands the completion m to the form that is open
LookupDelivered(m) ==
    /\ m.type \in resultTypes
    /\ Addressed(m)
    /\ msgs' = msgs (-) SetToBag({m})
    /\ last'.ev = "lookup"
    /\ last'.completed # <<>> /\ Last(last'.completed) = m

\* C26: when the result of the lookup of the current sequence is applied,
\* zero suggestions leave the dropdown hidden, a non-empty result shows the
\* dropdown with the cursor on the first suggestion, an error sets the form's
\* error message and leaves the dropdown hidden; in all three cases searching
\* becomes false.
C26_CurrentLookupApplied ==
    [][\A m \in BagToSet(msgs) :
          (LookupDelivered(m) /\ m.seq = currentForm[1].searchSeq) =>
              /\ currentForm' # Nil
              /\ ~currentForm'[1].searching
              /\ IF m.err
                 THEN currentForm'[1].error # "" /\ ~currentForm'[1].showDropdown
                 ELSE IF m.results = <<>>
                      THEN ~currentForm'[1].showDropdown
                      ELSE /\ currentForm'[1].showDropdown
                           /\ currentForm'[1].searchResults = m.results
                           /\ currentForm'[1].searchCursor = 0]_vars

\* the completion of the current lookup, which came with suggestions, has
\* just been applied to a form that was searching
C26_SuggestionsShown ==
    /\ last.ev = "lookup"
    /\ currentForm # Nil /\ screen # ScreenRestaurantForm
    /\ Last(last.completed).seq = currentForm[1].searchSeq
    /\ ~Last(last.completed).err
    /\ currentForm[1].searchResults = Last(last.completed).results
    /\ currentForm[1].showDropdown /\ currentForm[1].searchCursor = 0
    /\ ~currentForm[1].searching

-----------------------------------------------------------------------------
(* A suggestion taken from the dropdown, in a database that holds the      *)
(* restaurant of an earlier session.                                       *)

\* names of restaurants saved earlier
StoredNames == {"a", "U+00C9"}

\* names the search service answers with
Suggestions == {"A", "B", "U+00E9"}

InitSuggest ==
    /\ \E name \in StoredNames : db = InsertRestaurant(EmptyDB, name, ZeroTime).db
    /\ now = FirstMoment
    /\ yelpClient = TRUE
    /\ screen = ScreenVisits /\ mode = ModeNav /\ gState = GStateIdle
    /\ height = 0
    /\ error = "" /\ info = "" /\ columnJump = FALSE
    /\ returnScreen = ScreenVisits
    /\ visits = Nil /\ restaurants = Nil /\ wantToVisit = Nil
    /\ visitDetail = Nil /\ restaurantDetail = Nil /\ wantToVisitDetail = Nil
    /\ visitForm = Nil /\ restaurantForm = Nil /\ wantToVisitForm = Nil
    /\ prefs = defaultUIPreferences
    /\ undoStack = <<>> /\ redoStack = <<>>
    /\ cmds = SetToBag({Cmd("loadVisits")})
    /\ msgs = EmptyBag
    /\ nextUid = 1
    /\ last = NoEvent

NextSuggest ==
    \/ Run
    \/ \E m \in BagToSet(msgs) : Deliver(m)
    \/ \E target \in {ScreenVisits, ScreenWantToVisit} : InFlight = 0 /\ KeySwitch(target)
    \/ (InFlight = 0 /\ KeyAdd)
    \/ NameTyped("Al")
    \/ FormTab
    \/ FormDown
    \/ RunLookup
    \/ \E m \in BagToSet(msgs) : DeliverTick(m)
    \/ \E m \in BagToSet(msgs) : DeliverLookup(m)

SpecSuggest == InitSuggest /\ [][NextSuggest]_vars

\* the restaurants whose name is the text, case and surrounding blanks ignored
SameName(d, text) ==
    {i \in DOMAIN d.restaurants :
         ToLower(TrimSpace(d.restaurants[i].name)) = ToLower(TrimSpace(text))}

SuggestionResolved(f, suggestion) ==
    LET r == selectSuggestion(f, suggestion, db, now)
        after == nextField([r.form EXCEPT !.showDropdown = FALSE])
    IN  /\ IF SameName(db, suggestion) # {}
           THEN r.db = db /\ r.form.restaurantID \in SameName(db, suggestion)
           ELSE /\ r.db.visits = db.visits /\ r.db.want_to_visit = db.want_to_visit
                /\ \E id \in DOMAIN r.db.restaurants \ DOMAIN db.restaurants :
                       /\ DOMAIN r.db.restaurants = DOMAIN db.restaurants \cup {id}
                       /\ r.db.restaurants[id].name = suggestion
                       /\ r.form.restaurantID = id
                       /\ \A i \in DOMAIN db.restaurants :
                              r.db.restaurants[i] = db.restaurants[i]
        /\ after.searchSeq = f.searchSeq
        /\ ~after.showDropdown

\* C27: selecting a suggestion resolves it within the keypress: a restaurant
\* of the same name, case and surrounding blanks ignored, is reused and no
\* row is created; without one, exactly one restaurant row with the
\* suggestion's name is created; searchSeq is unchanged and the dropdown is
\* closed.
C27_SuggestionReusedOrCreated ==
    (currentForm # Nil /\ screen # ScreenRestaurantForm) =>
        \A suggestion \in Suggestions : SuggestionResolved(currentForm[1], suggestion)

-----------------------------------------------------------------------------
(* The active column after "c" has hidden it.                              *)

Distance(i, j) == IF i < j THEN j - i ELSE i - j

\* the step hides the active column of the current table
ColumnHidden ==
    /\ currentTable # Nil /\ currentTable' # Nil
    /\ screen' = screen
    /\ HideActiveColumnOk(currentTable[1])
    /\ visibleColumnIndexes(currentTable'[1])
           = visibleColumnIndexes(currentTable[1]) \ {currentTable[1].activeColumn}
    /\ info' = "Column hidden"

\* C28 as stated: after a successful HideActiveColumn the new active column
\* is the visible column nearest by index to the column just hidden.
C28_ActiveMovesToNearestColumn ==
    [][ColumnHidden =>
           /\ currentTable'[1].activeColumn \in visibleColumnIndexes(currentTable'[1])
           /\ \A j \in visibleColumnIndexes(currentTable'[1]) :
                  Distance(currentTable'[1].activeColumn, currentTable[1].activeColumn)
                      <= Distance(j, currentTable[1].activeColumn)]_vars

\* C28 amended: after a successful HideActiveColumn the new active column is
\* the visible column of the lowest index.
C28_ActiveMovesToFirstColumn ==
    [][ColumnHidden =>
           /\ currentTable'[1].activeColumn \in visibleColumnIndexes(currentTable'[1])
           /\ \A j \in visibleColumnIndexes(currentTable'[1]) :
                  currentTable'[1].activeColumn <= j]_vars

\* the last column has been hidden and the first is active, the column
\* between them being visible
C28_LastColumnHidden ==
    /\ currentTable # Nil
    /\ info = "Column hidden"
    /\ LET t == currentTable[1]
       IN  /\ visibleColumnIndexes(t) = 0..(NumColumns - 2)
           /\ NumColumns > 2
           /\ t.activeColumn = 0

-----------------------------------------------------------------------------
(* The cursor and the window of rows that is drawn.                        *)

\* the step is a movement key that is not the first "g" of the gesture
CursorMoved == MovementKey /\ gState' = GStateIdle

\* C29: after every cursor movement on a list table whose renderer has set a
\* viewportHeight, the cursor lies inside the rendered window: offset <=
\* cursor < offset + viewportHeight, viewportHeight being the height set on
\* the latest frame drawn before the key.
C29_CursorInsideWindow ==
    [][(/\ CursorMoved
        /\ screen \in {ScreenVisits, ScreenRestaurants}
        /\ currentTable # Nil
        /\ currentTable[1].viewportHeight > 0) =>
           /\ currentTable'[1].offset <= currentTable'[1].cursor
           /\ currentTable'[1].cursor
                  < currentTable'[1].offset + currentTable[1].viewportHeight]_vars

-----------------------------------------------------------------------------
(* An undo or a redo that fails.  The user of this session goes to the     *)
(* restaurants, opens one, deletes it and opens and saves the form for a   *)
(* visit to it without waiting for the delete to complete; every other key *)
(* is pressed when nothing is in flight.                                   *)

NextUndo ==
    \/ Run
    \/ \E m \in BagToSet(msgs) : Deliver(m)
    \/ (InFlight = 0 /\ KeySwitch(ScreenRestaurants))
    \/ (InFlight = 0 /\ KeyEnter)
    \/ KeyDelete
    \/ KeyVisitHere
    \/ FormSave
    \/ (InFlight = 0 /\ KeyUndo)
    \/ (InFlight = 0 /\ KeyRedo)

SpecUndo == InitHasty /\ [][NextUndo]_vars

\* C30: an undo or a redo that fails leaves the rows of the repository as
\* they were before the attempt; the failed undo of a restaurant delete
\* leaves none of the rows it had inserted again.
C30_FailedUndoLeavesRowsAlone ==
    [][\A c \in BagToSet(cmds) : \A m \in BagToSet(msgs') :
          (Ran(c, m) /\ c.type \in {"undo", "redo"} /\ m.err) => db' = db]_vars

\* ---------------------------------------------------------------------------
\* Reloads and table preferences: the column keys, the sort key, the filter and
\* the cursor on a list, with reloads of that list in between
NextReload ==
    \/ KeyTab
    \/ KeyShiftTab
    \/ KeyHide
    \/ KeyShowAll
    \/ KeySort
    \/ KeyFilter
    \/ KeyDown
    \/ \E n \in 0..MaxRows : Reloaded(n)

SpecReload == InitPrefs /\ [][NextReload]_vars

ReloadStep == \E n \in 0..MaxRows : Reloaded(n)

\* C31: a reload of the current list keeps the table's sort key and direction,
\* its set of hidden columns and its active column as they were just before
\* the reload, and leaves the new table with no filter and with cursor and
\* offset 0
C31_ReloadKeepsTablePrefs ==
    [][(ReloadStep /\ currentTable # Nil) =>
          LET t == currentTable[1]
              u == currentTable'[1]
          IN  /\ Prefs(u) = Prefs(t)
              /\ u.activeColumn = t.activeColumn
              /\ u.filterKey = "" /\ u.filterValue = ""
              /\ u.cursor = 0 /\ u.offset = 0]_vars

\* a reload has dropped a filter from a sorted table with a hidden column: the
\* filter's notice is still shown, the filter is gone
C31_ReloadedSortedTable ==
    /\ currentTable # Nil
    /\ currentTable[1].filterKey = ""
    /\ info = "Filter applied from selected value"
    /\ currentTable[1].sortKey # ""
    /\ Prefs(currentTable[1]).HiddenColumns # {}
    /\ currentTable[1].activeColumn # 0

\* ---------------------------------------------------------------------------
\* Keys pressed while requests are outstanding: a detail is opened, edited,
\* deleted or left and a form opened or cancelled before the completion of an
\* earlier request is processed
NextCompletions ==
    \/ Run
    \/ \E m \in BagToSet(msgs) : Deliver(m)
    \/ KeyEnter
    \/ KeyAdd
    \/ KeyEdit
    \/ KeyDelete
    \/ KeyBack
    \/ FormEsc

SpecCompletions == InitHasty /\ [][NextCompletions]_vars

FormScreens == {ScreenVisitForm, ScreenRestaurantForm, ScreenWantToVisitForm}

DetailScreens == {ScreenVisitDetail, ScreenRestaurantDetail, ScreenWantToVisitDetail}

\* C32: whatever order the completion messages arrive in, the mode is Insert
\* exactly when the screen is a form screen whose form model exists, and on a
\* detail screen the detail model exists
C32_ModeMatchesScreen ==
    /\ (mode = ModeInsert) <=> (screen \in FormScreens /\ currentForm # Nil)
    /\ screen \in DetailScreens => currentDetail # Nil

\* ---------------------------------------------------------------------------
\* the uids of the actions on a stack; buildXAction numbers the actions in
\* the order in which the forward mutations were pushed
UidsOf(stack) == {stack[i].uid : i \in DOMAIN stack}

\* C33: the redo stack holds no action of a discarded timeline: every action
\* on redoStack was pushed after every action on undoStack, so that no
\* forward mutation has been pushed since the actions on redoStack were undone
C33_RedoStackOfThisTimeline ==
    \A a \in UidsOf(redoStack) : \A b \in UidsOf(undoStack) : b < a

\* ---------------------------------------------------------------------------
\* Forms closed and opened while debounce timers and lookups are in flight
NextStale ==
    \/ Run
    \/ \E m \in BagToSet(msgs) : Deliver(m)
    \/ KeyAdd
    \/ \E text \in SearchTexts :
           currentForm # Nil /\ currentForm[1].focusedField = 0 /\ FormType(text)
    \/ FormEsc
    \/ RunLookup
    \/ \E m \in BagToSet(msgs) : DeliverTick(m)
    \/ \E m \in BagToSet(msgs) : DeliverLookup(m)

SpecStale == InitSearch /\ [][NextStale]_vars

\* the message reaches a form other than the one whose timer or lookup made it
Stale(m) == Addressed(m) /\ m.origin # currentForm[1].inst

\* C34: a debounce tick or a lookup result of a form that has been closed is
\* not applied to a form opened later: the tick starts no lookup and the
\* result leaves the form as it is, also when the later form's searchSeq has
\* reached the message's seq
C34_ClosedFormsMessagesDropped ==
    [][\A m \in BagToSet(msgs) :
          (Delivered(m) /\ m.type \in tickTypes \cup resultTypes /\ Stale(m))
          => UNCHANGED <<cmds, forms>>]_vars

\* ---------------------------------------------------------------------------
\* C35: with nothing but the application writing to the repository and new
\* ids handed out as one more than the largest id, every undo of the action
\* that "u" took from the top of undoStack succeeds
C35_UndoOfTopSucceeds ==
    [][\A c \in BagToSet(cmds) : \A m \in BagToSet(msgs') :
          (Ran(c, m) /\ c.type = "undo") => ~m.err]_vars

\* ---------------------------------------------------------------------------
RestaurantIDs(d) == {d.restaurants[i].id : i \in DOMAIN d.restaurants}

\* C36: in every repository state every visit row and every want-to-visit
\* row names a restaurant row that exists
C36_RowsReferenceRestaurants ==
    /\ \A i \in DOMAIN db.visits : db.visits[i].restaurant_id \in RestaurantIDs(db)
    /\ \A i \in DOMAIN db.want_to_visit :
           db.want_to_visit[i].restaurant_id \in RestaurantIDs(db)

\* ---------------------------------------------------------------------------
\* A session that starts on an empty repository
InitEmpty == Init /\ db = EmptyDB

SpecInverse == InitEmpty /\ [][Next]_vars

\* one forward action has been built and pushed, it has been undone with
\* success, and no mutation, undo or redo is outstanding
UndoneOnce ==
    /\ nextUid = 2
    /\ undoStack = <<>> /\ Len(redoStack) = 1
    /\ CountOf(cmds, mutationCmds \cup {"undo", "redo"}) = 0
    /\ CountOf(msgs, mutationMsgs \cup {"undoAppliedMsg"}) = 0

\* C37: undo is the exact inverse of the forward action: once the first
\* action of a session that found the repository empty has been undone, the
\* repository holds the rows it held before the action, that is none
C37_UndoRestoresRows == UndoneOnce => db = EmptyDB

\* ---------------------------------------------------------------------------
RowSet(rows) == {rows[i] : i \in DOMAIN rows}

\* table t, when loaded, holds the rows that the list query returns now
ShowsRepository(t, rows) == t # Nil => RowSet(t[1].allRows) = RowSet(rows)

\* C38: once every request in flight has completed, each loaded list table
\* holds the repository's current contents for its list
C38_TablesShowRepository ==
    InFlight = 0 =>
        /\ ShowsRepository(visits, ListVisits(db))
        /\ ShowsRepository(restaurants, ListRestaurants(db))
        /\ ShowsRepository(wantToVisit, GetWantToVisitList(db))

\* ---------------------------------------------------------------------------
\* The column-jump prompt and the keys that leave the list: "/" and then a
\* digit or esc, or a key that opens a form, a detail or another list
NextJump ==
    \/ Run
    \/ \E m \in BagToSet(msgs) : Deliver(m)
    \/ KeySlash
    \/ ColumnJumpEsc
    \/ \E n \in 1..(NumColumns + 1) : ColumnJumpDigit(n)
    \/ \E target \in TopLevelScreens : KeySwitch(target)
    \/ KeyAdd
    \/ KeyEnter
    \/ KeyBack
    \/ FormEsc

SpecJump == Init /\ [][NextJump]_vars

\* C39: the column-jump prompt is pending only in Nav mode on a list screen
\* whose table is loaded: whatever leaves the list or enters Insert mode
\* clears it, so that no digit typed on another screen is taken for a column
C39_ColumnJumpOnlyOnLists ==
    columnJump => /\ mode = ModeNav
                  /\ screen \in TopLevelScreens
                  /\ currentTable # Nil

\* ---------------------------------------------------------------------------
\* Undo pressed again before the first undo has completed.  The user starts
\* a delete or a redo and changes screen only when nothing is outstanding,
\* and presses "u" only when no save, delete, convert or redo is: every
\* action is then pushed before any action above it is popped, and "u" takes
\* the actions in the order of descending uid.
OnlyUndosOutstanding ==
    /\ CountOf(cmds, mutationCmds \cup {"redo"}) = 0
    /\ CountOf(msgs, mutationMsgs) = 0
    /\ \A m \in BagToSet(msgs) : m.type = "undoAppliedMsg" => m.direction = "undo"

NextRedoOrder ==
    \/ Run
    \/ \E m \in BagToSet(msgs) : Deliver(m)
    \/ \E target \in TopLevelScreens : InFlight = 0 /\ KeySwitch(target)
    \/ (InFlight = 0 /\ KeyEnter)
    \/ (InFlight = 0 /\ KeyDelete)
    \/ (OnlyUndosOutstanding /\ KeyUndo)
    \/ (InFlight = 0 /\ KeyRedo)

SpecRedoOrder == InitHasty /\ [][NextRedoOrder]_vars

NoUndoOutstanding ==
    CountOf(cmds, {"undo"}) = 0 /\ CountOf(msgs, {"undoAppliedMsg"}) = 0

\* C40: redo replays the undone actions in the reverse order of the "u"
\* keys: once the undos have completed, in whatever order, the action
\* undone last (the deepest of undoStack, of the least uid) is on top of
\* redoStack and every action lies above those undone before it
C40_RedoReversesUndoKeys ==
    NoUndoOutstanding =>
        \A i, j \in DOMAIN redoStack : i < j => redoStack[i].uid > redoStack[j].uid

=============================================================================
